---- MODULE Spec2Model ----
(***************************************************************************)
(* Reasoning-trace optimizer: the optimization loop of                     *)
(* reasoning_trace_optimizer/loop.py (OptimizationLoop.run and helpers).   *)
(*                                                                         *)
(* Scores are Python floats in the source.  Here every score is an exact   *)
(* integer number of hundredths of a point (7500 is 75.0), weights are     *)
(* integer percents (40 is 0.4) and max_prompt_growth is in tenths (50 is  *)
(* 5.0), so that the arithmetic of the source is reproduced exactly on the *)
(* inputs drawn below.  Prompts are strings; len() is Len.                 *)
(***************************************************************************)
EXTENDS Integers, Sequences, FiniteSets, TLC

VARIABLES
    config,                   \* LoopConfig of the OptimizationLoop
    pc,                       \* position of run(), or of a _calculate_score call
    i,                        \* loop index of `for i in range(max_iterations)`
    current_prompt,
    best_score,
    best_prompt,
    best_iteration,
    consecutive_regressions,
    trace,                    \* trace of the current iteration
    analysis,                 \* analysis of the current iteration
    iteration_score,
    should_continue,
    optimization,             \* None or Some(OptimizationResult)
    result,                   \* the LoopResult under construction
    response_text,            \* the reply text a parse step is given
    messages,                 \* TraceCapture.run: the message history
    turn,                     \* TraceCapture.run: the turn counter
    max_turns,                \* TraceCapture.run: argument
    tool_executor,            \* TraceCapture.run: argument, None or the executor
    tool_use_blocks,          \* tool-use blocks of the turn still to execute
    tool_results,             \* tool results of the turn collected so far
    responses,                \* the contents the provider returned, in order
    got,                      \* None or Some(what a getter of the trace returned)
    analyses,                 \* optimize_iterative: argument, the analyses of the runs
    optimize_calls,           \* optimize_iterative: the calls of optimize() made
    ran                       \* None or Some(what run() returned and last sent)

vars == <<config, pc, i, current_prompt, best_score, best_prompt, best_iteration,
          consecutive_regressions, trace, analysis, iteration_score,
          should_continue, optimization, result, response_text, messages, turn,
          max_turns, tool_executor, tool_use_blocks, tool_results, responses, got,
          analyses, optimize_calls, ran>>

(* The variables of the parse steps, of the trace's getters, of            *)
(* optimize_iterative and of the comparison of run() with run_streaming(), *)
(* and those of TraceCapture.run, which the optimization loop leaves alone *)
parseVars == <<response_text, got, analyses, optimize_calls, ran>>
captureVars == <<messages, turn, max_turns, tool_executor, tool_use_blocks,
                 tool_results, responses>>

-----------------------------------------------------------------------------
(* Bounds of the model *)

MaxIter == 4

(* Program constants: the defaults of LoopConfig *)

DefaultConvergenceThreshold == 300
DefaultMinScoreThreshold == 7500
DefaultRegressionThreshold == 800
DefaultSuccessWeight == 40
DefaultScoreWeight == 40
DefaultErrorWeight == 20
DefaultMaxPromptGrowth == 50

-----------------------------------------------------------------------------
(* Helpers *)

None == <<>>
Some(x) == <<x>>

Max(a, b) == IF a >= b THEN a ELSE b
Min(a, b) == IF a <= b THEN a ELSE b
Abs(a) == IF a < 0 THEN -a ELSE a

(* Inputs: the prompt given to run(), the analyzer's overall scores and    *)
(* the replies of the optimizer.                                           *)

InitialPrompt == "Be brief."

Overalls == {0, 5000, 10000}

FreshPrompt(n) == "Be brief. Plan first, v" \o ToString(n) \o "."

BloatedPrompt(n) ==
    "Be brief. Always plan, verify, re-check, summarise and cite, v" \o ToString(n) \o "."

(* What the optimizer may reply with for a prompt: that prompt unchanged,  *)
(* the initial prompt again, a new prompt, and an oversized one            *)
OptimizerReplies(original, n) ==
    {original, InitialPrompt, FreshPrompt(n), BloatedPrompt(n)}

(* What capture.run can return for a prompt: the task completed, it did    *)
(* not, or it completed with one failed tool call on the way.              *)
TraceOutcomes ==
    {[success |-> TRUE,  failed_tool_calls |-> 0],
     [success |-> FALSE, failed_tool_calls |-> 0],
     [success |-> TRUE,  failed_tool_calls |-> 1]}

Traces(prompt) ==
    {[system_prompt     |-> prompt,
      success           |-> o.success,
      failed_tool_calls |-> o.failed_tool_calls] : o \in TraceOutcomes}

DefaultConfig(max_iterations, use_best_prompt) ==
    [max_iterations        |-> max_iterations,
     convergence_threshold |-> DefaultConvergenceThreshold,
     min_score_threshold   |-> DefaultMinScoreThreshold,
     regression_threshold  |-> DefaultRegressionThreshold,
     success_weight        |-> DefaultSuccessWeight,
     score_weight          |-> DefaultScoreWeight,
     error_weight          |-> DefaultErrorWeight,
     use_best_prompt       |-> use_best_prompt,
     max_prompt_growth     |-> DefaultMaxPromptGrowth]

(* The configurations of run(): the defaults, with max_iterations up to    *)
(* MaxIter when use_best_prompt is set and up to MaxIter - 1 when it is    *)
(* unset.                                                                  *)
LoopConfigs ==
    {DefaultConfig(m, TRUE) : m \in 0..MaxIter}
    \cup {DefaultConfig(m, FALSE) : m \in 0..(MaxIter - 1)}

(* No parse step, no getter call and no capture in progress *)
IterativeIdle == analyses = <<>> /\ optimize_calls = <<>> /\ ran = None

ParseIdle == response_text = <<>> /\ got = None /\ IterativeIdle

CaptureIdle ==
    /\ messages = <<>>
    /\ turn = 0
    /\ max_turns = 0
    /\ tool_executor = None
    /\ tool_use_blocks = <<>>
    /\ tool_results = <<>>
    /\ responses = <<>>

NoTrace == [system_prompt |-> "", success |-> FALSE, failed_tool_calls |-> 0]
NoAnalysis == [overall_score |-> 0]

-----------------------------------------------------------------------------
(* OptimizationLoop._calculate_score *)

CalculateScoreUnclamped(cfg, tr, an) ==
    LET success_score == IF tr.success THEN 10000 ELSE 0
        error_penalty == tr.failed_tool_calls * 1000
        weighted100   == success_score * cfg.success_weight
                         + an.overall_score * cfg.score_weight
                         - error_penalty * cfg.error_weight
    IN  weighted100 \div 100

CalculateScore(cfg, tr, an) ==
    LET success_score == IF tr.success THEN 10000 ELSE 0
        error_penalty == tr.failed_tool_calls * 1000
        weighted100   == success_score * cfg.success_weight
                         + an.overall_score * cfg.score_weight
                         - error_penalty * cfg.error_weight
    IN  IF weighted100 <= 0 THEN 0
        ELSE IF weighted100 >= 1000000 THEN 10000
        ELSE weighted100 \div 100

(* _check_convergence without the score threshold of lines 358-360, and    *)
(* without the max-iterations check of lines 372-374                       *)

CheckConvergenceIgnoringCeiling(cfg, iteration, score, prev_score, best, regressions) ==
    IF regressions >= 2 THEN FALSE
    ELSE IF iteration > 0
            /\ Abs(score - prev_score) < cfg.convergence_threshold
            /\ score >= prev_score THEN FALSE
    ELSE IF iteration >= cfg.max_iterations - 1 THEN FALSE
    ELSE TRUE

CheckConvergenceUnbounded(cfg, iteration, score, prev_score, best, regressions) ==
    IF score >= cfg.min_score_threshold THEN FALSE
    ELSE IF regressions >= 2 THEN FALSE
    ELSE IF iteration > 0
            /\ Abs(score - prev_score) < cfg.convergence_threshold
            /\ score >= prev_score THEN FALSE
    ELSE TRUE

(* OptimizationLoop._check_convergence: TRUE when the loop should continue *)

CheckConvergence(cfg, iteration, score, prev_score, best, regressions) ==
    IF score >= cfg.min_score_threshold THEN FALSE
    ELSE IF regressions >= 2 THEN FALSE
    ELSE IF iteration > 0
            /\ Abs(score - prev_score) < cfg.convergence_threshold
            /\ score >= prev_score THEN FALSE
    ELSE IF iteration >= cfg.max_iterations - 1 THEN FALSE
    ELSE TRUE

(* The prev_score argument run() passes to _check_convergence *)

PrevScore(iterations) ==
    IF Len(iterations) > 0
    THEN iterations[Len(iterations)].analysis.overall_score
    ELSE 0

(* The growth check of run(): the prompt the next iteration runs with *)

GrowthCheckedToInitial(cfg, initial, current, new_prompt) ==
    IF Len(new_prompt) * 10 > Len(initial) * cfg.max_prompt_growth
    THEN initial
    ELSE new_prompt

GrowthChecked(cfg, initial, current, new_prompt) ==
    IF Len(new_prompt) * 10 > Len(initial) * cfg.max_prompt_growth
    THEN current
    ELSE new_prompt

(* The prompt recorded as best when an iteration sets a new best score *)

NewBestPrompt(initial, opt, current) ==
    IF opt # None /\ opt[1].optimized_prompt # initial
    THEN opt[1].optimized_prompt
    ELSE current

(* The number recorded on a LoopIteration *)

IterationNumberZeroBased(n) == n

IterationNumber(n) == n + 1

(* Finalization of run(): whether the best prompt is returned *)

UseBestWhenLower(cfg, best, iterations) ==
    cfg.use_best_prompt /\ best < iterations[Len(iterations)].analysis.overall_score

UseBest(cfg, best, iterations) ==
    cfg.use_best_prompt /\ best > iterations[Len(iterations)].analysis.overall_score

FinalScoreOfLastIteration(cfg, best, iterations) ==
    IF Len(iterations) > 0
    THEN iterations[Len(iterations)].analysis.overall_score
    ELSE 0

FinalScore(cfg, best, iterations) ==
    IF UseBest(cfg, best, iterations) THEN best
    ELSE IF Len(iterations) > 0
         THEN iterations[Len(iterations)].analysis.overall_score
         ELSE 0

FinalPrompt(cfg, best, bestp, current, iterations) ==
    IF UseBest(cfg, best, iterations) THEN bestp ELSE current

ImprovementPercentageUnguarded(final, initial) ==
    [num |-> (final - initial) * 100, den |-> initial]

(* improvement_percentage, as the exact fraction num/den of hundredths:    *)
(* (final - initial) * 100 over max(initial, 1)                            *)

ImprovementPercentage(final, initial) ==
    [num |-> (final - initial) * 100, den |-> Max(initial, 100)]

-----------------------------------------------------------------------------
(* OptimizationLoop.run *)

NewResult ==
    [iterations             |-> <<>>,
     final_prompt           |-> InitialPrompt,
     converged              |-> FALSE,
     total_iterations       |-> 0,
     initial_score          |-> 0,
     final_score            |-> 0,
     improvement_percentage |-> [num |-> 0, den |-> 1]]

LoopHead(n, cfg) == IF n < cfg.max_iterations THEN "capture" ELSE "finalize"

Init ==
    /\ config \in LoopConfigs
    /\ pc = LoopHead(0, config)
    /\ i = 0
    /\ current_prompt = InitialPrompt
    /\ best_score = 0
    /\ best_prompt = InitialPrompt
    /\ best_iteration = 0
    /\ consecutive_regressions = 0
    /\ trace = NoTrace
    /\ analysis = NoAnalysis
    /\ iteration_score = 0
    /\ should_continue = TRUE
    /\ optimization = None
    /\ result = NewResult
    /\ ParseIdle
    /\ CaptureIdle

(* Best tracking of run(), done after the optimization step: the new      *)
(* values of best_score, best_prompt, best_iteration and                   *)
(* consecutive_regressions                                                 *)
TrackBest(cfg, n, score, opt, current, best, bestp, besti, regressions) ==
    IF score > best
    THEN [best_score |-> score,
          best_prompt |-> NewBestPrompt(InitialPrompt, opt, current),
          best_iteration |-> n + 1,
          consecutive_regressions |-> 0]
    ELSE [best_score |-> best,
          best_prompt |-> bestp,
          best_iteration |-> besti,
          consecutive_regressions |->
              IF score < best - cfg.regression_threshold
              THEN regressions + 1
              ELSE regressions]

(* The LoopIteration appended, with the converged flag left alone *)
RecordIterationKeepingFlag(res, n, tr, an, opt, continue) ==
    [res EXCEPT
        !.iterations = Append(@, [iteration    |-> IterationNumber(n),
                                  trace        |-> tr,
                                  analysis     |-> an,
                                  optimization |-> opt])]

(* The LoopIteration appended to result.iterations, and the converged flag *)
RecordIteration(res, n, tr, an, opt, continue) ==
    [res EXCEPT
        !.iterations = Append(@, [iteration    |-> IterationNumber(n),
                                  trace        |-> tr,
                                  analysis     |-> an,
                                  optimization |-> opt]),
        !.converged = IF continue THEN @ ELSE TRUE]

(* The finalization of run(), after the loop *)
Finalized(res, cfg, best, bestp, current) ==
    LET final == FinalScore(cfg, best, res.iterations)
    IN  [res EXCEPT
            !.final_prompt = FinalPrompt(cfg, best, bestp, current, res.iterations),
            !.final_score = final,
            !.total_iterations = Len(res.iterations),
            !.improvement_percentage = ImprovementPercentage(final, res.initial_score)]

(* Step 1: capture.run never raises; it returns a trace run with the       *)
(* current prompt                                                          *)
Capture ==
    /\ pc = "capture"
    /\ trace' \in Traces(current_prompt)
    /\ pc' = "analyze"
    /\ UNCHANGED <<config, i, current_prompt, best_score, best_prompt, best_iteration,
                   consecutive_regressions, analysis, iteration_score,
                   should_continue, optimization, result>>
    /\ UNCHANGED <<parseVars, captureVars>>

(* Steps 2 and 3: analyze, score, record the initial score, check          *)
(* convergence.  When the loop is to stop, the iteration is recorded with  *)
(* no optimization, the loop is left and the result is finalized and       *)
(* returned; otherwise the optimizer is called next.                       *)
Analyze ==
    /\ pc = "analyze"
    /\ \E overall \in Overalls :
        LET an    == [overall_score |-> overall]
            score == CalculateScore(config, trace, an)
            best  == IF i = 0 THEN score ELSE best_score
            bestp == IF i = 0 THEN current_prompt ELSE best_prompt
            res   == IF i = 0 THEN [result EXCEPT !.initial_score = score] ELSE result
            continue == CheckConvergence(config, i, score, PrevScore(result.iterations),
                                         best, consecutive_regressions)
            t     == TrackBest(config, i, score, None, current_prompt, best, bestp,
                               best_iteration, consecutive_regressions)
        IN  /\ analysis' = an
            /\ iteration_score' = score
            /\ should_continue' = continue
            /\ optimization' = None
            /\ IF continue
               THEN /\ best_score' = best
                    /\ best_prompt' = bestp
                    /\ result' = res
                    /\ pc' = "optimize"
                    /\ UNCHANGED <<best_iteration, consecutive_regressions>>
               ELSE /\ best_score' = t.best_score
                    /\ best_prompt' = t.best_prompt
                    /\ best_iteration' = t.best_iteration
                    /\ consecutive_regressions' = t.consecutive_regressions
                    /\ result' = Finalized(RecordIteration(res, i, trace, an, None, FALSE),
                                           config, t.best_score, t.best_prompt,
                                           current_prompt)
                    /\ pc' = "done"
    /\ UNCHANGED <<config, i, current_prompt, trace>>
    /\ UNCHANGED <<parseVars, captureVars>>

(* The analyzer's model call raises after the iteration has been recorded *)
AnalyzeRaisesAfterRecording ==
    /\ pc = "analyze"
    /\ result' = RecordIteration(result, i, trace, analysis, None, TRUE)
    /\ pc' = "raised"
    /\ UNCHANGED <<config, i, current_prompt, best_score, best_prompt, best_iteration,
                   consecutive_regressions, trace, analysis, iteration_score,
                   should_continue, optimization>>
    /\ UNCHANGED <<parseVars, captureVars>>

(* The analyzer's model call raises: run() does not catch it *)
AnalyzeRaises ==
    /\ pc = "analyze"
    /\ pc' = "raised"
    /\ UNCHANGED <<config, i, current_prompt, best_score, best_prompt, best_iteration,
                   consecutive_regressions, trace, analysis, iteration_score,
                   should_continue, optimization, result>>
    /\ UNCHANGED <<parseVars, captureVars>>

(* Step 4: optimize, check the prompt growth, track the best, record the   *)
(* iteration and go to the head of the loop                                *)
Optimize ==
    /\ pc = "optimize"
    /\ \E reply \in OptimizerReplies(current_prompt, i + 1) :
        LET opt == Some([original_prompt  |-> current_prompt,
                         optimized_prompt |-> reply])
            new == GrowthChecked(config, InitialPrompt, current_prompt, reply)
            t   == TrackBest(config, i, iteration_score, opt, new, best_score,
                             best_prompt, best_iteration, consecutive_regressions)
        IN  /\ optimization' = opt
            /\ current_prompt' = new
            /\ best_score' = t.best_score
            /\ best_prompt' = t.best_prompt
            /\ best_iteration' = t.best_iteration
            /\ consecutive_regressions' = t.consecutive_regressions
            /\ result' = RecordIteration(result, i, trace, analysis, opt, TRUE)
    /\ i' = i + 1
    /\ pc' = LoopHead(i + 1, config)
    /\ UNCHANGED <<config, trace, analysis, iteration_score, should_continue>>
    /\ UNCHANGED <<parseVars, captureVars>>

(* The optimizer's model call raises: run() does not catch it *)
OptimizeRaises ==
    /\ pc = "optimize"
    /\ pc' = "raised"
    /\ UNCHANGED <<config, i, current_prompt, best_score, best_prompt, best_iteration,
                   consecutive_regressions, trace, analysis, iteration_score,
                   should_continue, optimization, result>>
    /\ UNCHANGED <<parseVars, captureVars>>

(* The loop ends by exhausting range(max_iterations): finalization with    *)
(* use_best_prompt unset, or with an iteration recorded                    *)
Finalize ==
    /\ pc = "finalize"
    /\ (Len(result.iterations) > 0 \/ ~config.use_best_prompt)
    /\ result' = Finalized(result, config, best_score, best_prompt, current_prompt)
    /\ pc' = "done"
    /\ UNCHANGED <<config, i, current_prompt, best_score, best_prompt, best_iteration,
                   consecutive_regressions, trace, analysis, iteration_score,
                   should_continue, optimization>>
    /\ UNCHANGED <<parseVars, captureVars>>

(* Finalization with no iteration recorded and use_best_prompt set:        *)
(* result.iterations[-1] raises IndexError                                 *)
FinalizeRaises ==
    /\ pc = "finalize"
    /\ Len(result.iterations) = 0
    /\ config.use_best_prompt
    /\ pc' = "raised"
    /\ UNCHANGED <<config, i, current_prompt, best_score, best_prompt, best_iteration,
                   consecutive_regressions, trace, analysis, iteration_score,
                   should_continue, optimization, result>>
    /\ UNCHANGED <<parseVars, captureVars>>

Next ==
    \/ Capture
    \/ Analyze
    \/ AnalyzeRaises
    \/ Optimize
    \/ OptimizeRaises
    \/ Finalize
    \/ FinalizeRaises

Spec == Init /\ [][Next]_vars

-----------------------------------------------------------------------------
(* _calculate_score on its own: the inputs are drawn, the score computed *)

MaxToolErrors == 3

Weights == {0, 40, 100}

ScoreOveralls == {0, 2500, 5000, 7500, 10000}

ScoreConfigs ==
    {[DefaultConfig(1, TRUE) EXCEPT !.success_weight = sw,
                                    !.score_weight = cw,
                                    !.error_weight = ew] :
        sw \in Weights, cw \in Weights, ew \in Weights}

ScoreTraces ==
    [system_prompt : {InitialPrompt}, success : BOOLEAN,
     failed_tool_calls : 0..MaxToolErrors]

ScoreInit ==
    /\ config \in ScoreConfigs
    /\ pc = "score"
    /\ trace \in ScoreTraces
    /\ analysis \in [overall_score : ScoreOveralls]
    /\ iteration_score = 0
    /\ i = 0
    /\ current_prompt = InitialPrompt
    /\ best_score = 0
    /\ best_prompt = InitialPrompt
    /\ best_iteration = 0
    /\ consecutive_regressions = 0
    /\ should_continue = TRUE
    /\ optimization = None
    /\ result = NewResult
    /\ ParseIdle
    /\ CaptureIdle

Score ==
    /\ pc = "score"
    /\ iteration_score' = CalculateScore(config, trace, analysis)
    /\ pc' = "scored"
    /\ UNCHANGED <<config, i, current_prompt, best_score, best_prompt, best_iteration,
                   consecutive_regressions, trace, analysis, should_continue,
                   optimization, result>>
    /\ UNCHANGED <<parseVars, captureVars>>

ScoreNext == Score

ScoreSpec == ScoreInit /\ [][ScoreNext]_vars

-----------------------------------------------------------------------------
(* Properties *)

Iterations == result.iterations
NumIterations == Len(result.iterations)

(* The composite score of recorded iteration k *)
Composite(k) == CalculateScore(config, Iterations[k].trace, Iterations[k].analysis)

(* The best composite score over iterations 1..k *)
BestUpTo(k) ==
    CHOOSE m \in {Composite(j) : j \in 1..k} : \A j \in 1..k : Composite(j) <= m

(* Iteration k scored more than regression_threshold below the best so far *)
Regressed(k) == Composite(k) < BestUpTo(k) - config.regression_threshold

TooLong(prompt) == Len(prompt) * 10 > Len(InitialPrompt) * config.max_prompt_growth

Returned == pc = "done"

(* C1: with use_best_prompt set, the returned final_score is never more   *)
(* than regression_threshold below initial_score.                         *)
C1_BestPromptGuarantee ==
    (Returned /\ config.use_best_prompt)
        => result.final_score >= result.initial_score - config.regression_threshold

(* A run returned whose last iteration scored, and was rated by the        *)
(* analyzer, more than the threshold below the initial score.              *)
C1_Witness ==
    /\ Returned
    /\ config.use_best_prompt
    /\ NumIterations >= 2
    /\ Composite(NumIterations) < result.initial_score - config.regression_threshold
    /\ Iterations[NumIterations].analysis.overall_score
           < result.initial_score - config.regression_threshold

(* C2: whenever two consecutive iterations have composites c_prev and c    *)
(* with 0 <= c - c_prev < convergence_threshold, the loop stops at the     *)
(* second of them (it is the last recorded) with converged = true.         *)
C2_ConvergenceBoundary ==
    \A k \in 2..NumIterations :
        (/\ Composite(k) - Composite(k - 1) >= 0
         /\ Composite(k) - Composite(k - 1) < config.convergence_threshold)
            => (k = NumIterations /\ Returned /\ result.converged)

(* C3: whenever two consecutive iterations each scored more than           *)
(* regression_threshold below the best so far, the loop stops upon the     *)
(* second of them with converged = true.                                   *)
C3_RegressionBoundary ==
    \A k \in 2..NumIterations :
        (Regressed(k - 1) /\ Regressed(k))
            => (k = NumIterations /\ Returned /\ result.converged)

(* The system prompt of the capture that follows recorded iteration k *)
PromptAfter(k) ==
    IF k < NumIterations THEN Iterations[k + 1].trace.system_prompt
    ELSE IF pc = "capture" THEN current_prompt
    ELSE trace.system_prompt

(* C4: in an iteration where the optimizer returned a prompt longer than   *)
(* len(initial) x max_prompt_growth, the next capture runs with the same   *)
(* system prompt as this iteration; otherwise with the optimizer's prompt. *)
C4_GrowthCap ==
    \A k \in 1..NumIterations :
        Iterations[k].optimization # None
            => PromptAfter(k) =
                   IF TooLong(Iterations[k].optimization[1].optimized_prompt)
                   THEN Iterations[k].trace.system_prompt
                   ELSE Iterations[k].optimization[1].optimized_prompt

(* An oversized reply was discarded in an iteration run with an adopted    *)
(* (non-initial) prompt, and a further iteration was recorded.             *)
C4_Witness ==
    \E k \in 1..(NumIterations - 1) :
        /\ Iterations[k].optimization # None
        /\ TooLong(Iterations[k].optimization[1].optimized_prompt)
        /\ Iterations[k].trace.system_prompt # InitialPrompt

(* C5: for max_prompt_growth >= 1, no prompt longer than the cap is ever   *)
(* recorded as best_prompt or returned as final_prompt.                    *)
C5_PromptLengthBound ==
    config.max_prompt_growth >= 10
        => /\ ~TooLong(best_prompt)
           /\ (Returned => ~TooLong(result.final_prompt))

Terminated == pc \in {"done", "raised"}

(* What is recorded, for max_iterations >= 1: at most max_iterations       *)
(* iterations, numbered 1..n in order; a returned result has at least one  *)
(* and its total_iterations is the length of the list.                     *)
Recorded ==
    config.max_iterations >= 1
        => /\ NumIterations <= config.max_iterations
           /\ \A k \in 1..NumIterations : Iterations[k].iteration = k
           /\ Returned => /\ NumIterations >= 1
                          /\ result.total_iterations = NumIterations

(* An upper bound on the steps run() has left: each step lowers it *)
Remaining ==
    IF Terminated THEN 0
    ELSE 1 + 3 * (config.max_iterations - i)
         - (CASE pc = "analyze" -> 1 [] pc = "optimize" -> 2 [] OTHER -> 0)

(* C6: for max_iterations >= 1, run() terminates (every step lowers the    *)
(* bound Remaining, which is never negative, and a step is possible until  *)
(* run() has returned or raised); it records between 1 and max_iterations  *)
(* iterations, numbered 1..n in order, and total_iterations is the length  *)
(* of the iterations list.                                                 *)
C6_Terminates ==
    /\ [](Recorded /\ Remaining >= 0 /\ (Terminated \/ ENABLED Next))
    /\ [][Remaining' < Remaining]_vars

(* A run of max_iterations >= 2 returned with every iteration recorded. *)
C6_Witness ==
    /\ Returned
    /\ config.max_iterations >= 2
    /\ NumIterations = config.max_iterations

(* C7: with max_iterations = 1 exactly one iteration is recorded, with no  *)
(* optimization; final_prompt is the initial prompt and final_score equals *)
(* initial_score.                                                          *)
C7_SingleIteration ==
    (Returned /\ config.max_iterations = 1)
        => /\ NumIterations = 1
           /\ Iterations[1].optimization = None
           /\ result.final_prompt = InitialPrompt
           /\ result.final_score = result.initial_score

(* C8: improvement_percentage = (final_score - initial_score) /            *)
(* max(initial_score, 1) x 100 of the same result; the divisor is never 0. *)
C8_Improvement ==
    Returned
        => LET p == result.improvement_percentage
           IN  /\ p.den > 0
               /\ p.den = Max(result.initial_score, 100)
               /\ p.num = (result.final_score - result.initial_score) * 100

(* A run returned with initial_score 0 and a different final_score. *)
C8_Witness ==
    /\ Returned
    /\ result.initial_score = 0
    /\ result.final_score > 0

(* The weighted sum of _calculate_score, in 1/100 of a hundredth *)
Weighted100(cfg, tr, an) ==
    (IF tr.success THEN 10000 ELSE 0) * cfg.success_weight
    + an.overall_score * cfg.score_weight
    - 10 * 100 * tr.failed_tool_calls * cfg.error_weight

(* C9: the composite is clamp(0, 100, weighted sum); it lies in [0,100],   *)
(* does not decrease when the analyzer's overall grows and does not        *)
(* increase when more tool calls fail.                                     *)
C9_CompositeScore ==
    pc = "scored"
        => /\ iteration_score * 100 = Max(0, Min(100 * 10000, Weighted100(config, trace, analysis)))
           /\ iteration_score >= 0
           /\ iteration_score <= 10000
           /\ \A o \in ScoreOveralls :
                  o >= analysis.overall_score
                      => CalculateScore(config, trace, [overall_score |-> o])
                             >= iteration_score
           /\ \A f \in 0..MaxToolErrors :
                  f >= trace.failed_tool_calls
                      => CalculateScore(config, [trace EXCEPT !.failed_tool_calls = f],
                                        analysis) <= iteration_score

(* A score strictly inside (0,100) that a higher overall raises and a      *)
(* further failed tool call lowers.                                        *)
C9_Witness ==
    /\ pc = "scored"
    /\ iteration_score > 0
    /\ iteration_score < 10000
    /\ \E o \in ScoreOveralls :
           CalculateScore(config, trace, [overall_score |-> o]) > iteration_score
    /\ \E f \in 0..MaxToolErrors :
           CalculateScore(config, [trace EXCEPT !.failed_tool_calls = f], analysis)
               < iteration_score

(* C10: with use_best_prompt set, when the highest composite occurs at     *)
(* iteration k >= 2 and the later iterations score lower, final_score is   *)
(* that composite and final_prompt is the prompt adopted at iteration k.   *)
C10_BestPromptSelection ==
    (Returned /\ config.use_best_prompt)
        => \A k \in 2..(NumIterations - 1) :
               (\A j \in 1..NumIterations : j # k => Composite(j) < Composite(k))
                   => /\ result.final_score = Composite(k)
                      /\ result.final_prompt = Iterations[k + 1].trace.system_prompt

-----------------------------------------------------------------------------
(* Reply texts of the analyzer and optimizer models.                       *)
(*                                                                         *)
(* A text is a sequence of tokens; the text itself is the concatenation of *)
(* its tokens (Render).  A token is a record [k, s, n]: k is its kind, s   *)
(* its characters and n its value when it is a number.  A string literal   *)
(* holds the characters between its quotes, which hold no double quote;    *)
(* words hold no digit and none of the strings the parsers search for      *)
(* across token borders.  A fence is three backquotes and a tag, written   *)
(* here with three apostrophes.                                            *)

Punct(s) == [k |-> "punct", s |-> s, n |-> 0]
Str(s) == [k |-> "str", s |-> s, n |-> 0]
Num(n) == [k |-> "num", s |-> ToString(n), n |-> n]
Word(s) == [k |-> "word", s |-> s, n |-> 0]
WS(s) == [k |-> "ws", s |-> s, n |-> 0]
FenceTok(tag) == [k |-> "fence", s |-> tag, n |-> 0]

TokText(t) ==
    CASE t.k = "str" -> "\"" \o t.s \o "\""
      [] t.k = "fence" -> "'''" \o t.s
      [] OTHER -> t.s

RECURSIVE Render(_)
Render(text) == IF text = <<>> THEN "" ELSE TokText(Head(text)) \o Render(Tail(text))

(* str.strip(): the text without its leading and trailing whitespace *)
RECURSIVE Strip(_)
Strip(text) ==
    IF text = <<>> THEN text
    ELSE IF Head(text).k = "ws" THEN Strip(Tail(text))
    ELSE IF text[Len(text)].k = "ws" THEN Strip(SubSeq(text, 1, Len(text) - 1))
    ELSE text

(* The least position of a set of positions, 0 when there is none *)
First(ps) == IF ps = {} THEN 0 ELSE CHOOSE p \in ps : \A q \in ps : p <= q

(* The concatenation of a sequence of sequences *)
RECURSIVE Concat(_)
Concat(seqs) == IF seqs = <<>> THEN <<>> ELSE Head(seqs) \o Concat(Tail(seqs))

(* The JSON text of both parse steps: the text between the first           *)
(* json-tagged fence and the next fence, else between the first fence and  *)
(* the next, else the whole reply.  Splitting at the untagged fence leaves *)
(* the tag of a tagged fence in the text.                                  *)
ExtractJsonText(reply) ==
    LET Fences(text) == {p \in 1..Len(text) : text[p].k = "fence"}
        UpToFence(text) ==
            IF Fences(text) = {} THEN text ELSE SubSeq(text, 1, First(Fences(text)) - 1)
        After(p) == SubSeq(reply, p + 1, Len(reply))
        tagged == {p \in Fences(reply) : reply[p].s = "json"}
        first == First(Fences(reply))
    IN  IF tagged # {} THEN UpToFence(After(First(tagged)))
        ELSE IF first # 0
        THEN (IF reply[first].s = "" THEN <<>> ELSE <<Word(reply[first].s)>>)
             \o UpToFence(After(first))
        ELSE reply

-----------------------------------------------------------------------------
(* JSON values, json.dumps and json.loads *)

JNum(n) == [t |-> "num", n |-> n]
JStr(s) == [t |-> "str", s |-> s]
JNull == [t |-> "null"]
JList(items) == [t |-> "list", items |-> items]
JObj(members) == [t |-> "obj", members |-> members]

(* The characters an escaped string literal stands for.  One literal with  *)
(* an escape is drawn below.                                               *)
Unescape(s) == IF s = "Be brief.\\nPlan first." THEN "Be brief.\nPlan first." ELSE s

RECURSIVE Dumps(_)
Dumps(v) ==
    LET Escape(s) == IF s = "Be brief.\nPlan first." THEN "Be brief.\\nPlan first." ELSE s
        Comma(k, n) == IF k < n THEN <<Punct(","), WS(" ")>> ELSE <<>>
    IN  CASE v.t = "num" -> <<Num(v.n)>>
          [] v.t = "str" -> <<Str(Escape(v.s))>>
          [] v.t = "null" -> <<Punct("null")>>
          [] v.t = "list" ->
                <<Punct("[")>>
                \o Concat([k \in 1..Len(v.items) |->
                              Dumps(v.items[k]) \o Comma(k, Len(v.items))])
                \o <<Punct("]")>>
          [] v.t = "obj" ->
                <<Punct("{")>>
                \o Concat([k \in 1..Len(v.members) |->
                              <<Str(Escape(v.members[k][1])), Punct(":"), WS(" ")>>
                              \o Dumps(v.members[k][2]) \o Comma(k, Len(v.members))])
                \o <<Punct("}")>>

(* json.loads: [ok |-> FALSE] stands for JSONDecodeError.  ParseValue      *)
(* reads one value of toks from position p and gives the position after.   *)
RECURSIVE ParseValue(_, _), ParseItems(_, _, _), ParseMembers(_, _, _)
ParseValue(toks, p) ==
    IF p > Len(toks) THEN [ok |-> FALSE]
    ELSE LET t == toks[p]
         IN  CASE t.k = "num" -> [ok |-> TRUE, val |-> JNum(t.n), next |-> p + 1]
               [] t.k = "str" -> [ok |-> TRUE, val |-> JStr(Unescape(t.s)), next |-> p + 1]
               [] t = Punct("null") -> [ok |-> TRUE, val |-> JNull, next |-> p + 1]
               [] t = Punct("[") ->
                    IF p + 1 <= Len(toks) /\ toks[p + 1] = Punct("]")
                    THEN [ok |-> TRUE, val |-> JList(<<>>), next |-> p + 2]
                    ELSE ParseItems(toks, p + 1, <<>>)
               [] t = Punct("{") ->
                    IF p + 1 <= Len(toks) /\ toks[p + 1] = Punct("}")
                    THEN [ok |-> TRUE, val |-> JObj(<<>>), next |-> p + 2]
                    ELSE ParseMembers(toks, p + 1, <<>>)
               [] OTHER -> [ok |-> FALSE]

ParseItems(toks, p, acc) ==
    LET v == ParseValue(toks, p)
    IN  IF ~v.ok \/ v.next > Len(toks) THEN [ok |-> FALSE]
        ELSE IF toks[v.next] = Punct(",")
             THEN ParseItems(toks, v.next + 1, Append(acc, v.val))
        ELSE IF toks[v.next] = Punct("]")
             THEN [ok |-> TRUE, val |-> JList(Append(acc, v.val)), next |-> v.next + 1]
        ELSE [ok |-> FALSE]

ParseMembers(toks, p, acc) ==
    IF p + 1 > Len(toks) \/ toks[p].k # "str" \/ toks[p + 1] # Punct(":")
    THEN [ok |-> FALSE]
    ELSE LET v == ParseValue(toks, p + 2)
             m == <<Unescape(toks[p].s), IF v.ok THEN v.val ELSE JNull>>
         IN  IF ~v.ok \/ v.next > Len(toks) THEN [ok |-> FALSE]
             ELSE IF toks[v.next] = Punct(",")
                  THEN ParseMembers(toks, v.next + 1, Append(acc, m))
             ELSE IF toks[v.next] = Punct("}")
                  THEN [ok |-> TRUE, val |-> JObj(Append(acc, m)), next |-> v.next + 1]
             ELSE [ok |-> FALSE]

JsonLoads(text) ==
    LET NotSpace(t) == t.k # "ws"
        toks == SelectSeq(text, NotSpace)
        v    == ParseValue(toks, 1)
    IN  IF v.ok /\ v.next = Len(toks) + 1 THEN v ELSE [ok |-> FALSE]

(* dict.get(key, default) on the members of a JSON object: the last member *)
(* with the key wins                                                       *)
DictGet(members, key, default) ==
    LET ps == {p \in 1..Len(members) : members[p][1] = key}
    IN  IF ps = {} THEN default
        ELSE members[CHOOSE p \in ps : \A q \in ps : q <= p][2]

-----------------------------------------------------------------------------
(* TraceAnalyzer._parse_analysis_response and its fallbacks.               *)
(*                                                                         *)
(* The values of an AnalysisResult are the JSON values of the reply, as    *)
(* Python assigns them untyped: a score is in points here, not scaled.     *)
(* An outcome of a parse step is the result it returns or the exception    *)
(* it raises.                                                              *)

Absent == [t |-> "absent"]

Returns(r) == [raised |-> "", result |-> r]
Raises(exception) == [raised |-> exception, result |-> Absent]

PatternTypes ==
    {"context_degradation", "tool_confusion", "instruction_drift", "hallucination",
     "incomplete_reasoning", "tool_misuse", "goal_abandonment", "circular_reasoning",
     "premature_conclusion", "missing_validation"}

Severities == {"low", "medium", "high", "critical"}

(* AnalysisResult(trace_id): the defaults of the dataclass *)
NewAnalysisResult ==
    [patterns           |-> <<>>,
     reasoning_clarity  |-> JNum(0),
     goal_adherence     |-> JNum(0),
     tool_usage_quality |-> JNum(0),
     error_recovery     |-> JNum(0),
     overall_score      |-> JNum(0),
     strengths          |-> JList(<<>>),
     weaknesses         |-> JList(<<>>),
     recommendations    |-> JList(<<>>)]

(* One pass of the loop over data["patterns"] for the dict p: the Pattern  *)
(* built, None when KeyError or ValueError (a value that is no member of   *)
(* the Enum) skips the element                                             *)
ParsePattern(p) ==
    LET type        == DictGet(p.members, "type", Absent)
        severity    == DictGet(p.members, "severity", Absent)
        description == DictGet(p.members, "description", Absent)
        IsMember(v, values) == v.t = "str" /\ v.s \in values
    IN  IF \/ type = Absent \/ ~IsMember(type, PatternTypes)
           \/ severity = Absent \/ ~IsMember(severity, Severities)
           \/ description = Absent
        THEN None
        ELSE Some([type         |-> type.s,
                   severity     |-> severity.s,
                   description  |-> description,
                   evidence     |-> DictGet(p.members, "evidence", JList(<<>>)),
                   turn_indices |-> DictGet(p.members, "turn_indices", JList(<<>>)),
                   suggestion   |-> DictGet(p.members, "suggestion", JStr("")),
                   confidence   |-> DictGet(p.members, "confidence",
                                            [t |-> "real", s |-> "0.5"])])

(* for p in data.get("patterns", []): p["type"] raises TypeError on an     *)
(* element that is no dict; iterating a dict or a string gives strings,    *)
(* and a number or null is not iterable                                    *)
ParsePatterns(v) ==
    CASE v.t = "list" ->
            IF \E k \in 1..Len(v.items) : v.items[k].t # "obj"
            THEN [raised |-> "TypeError", patterns |-> <<>>]
            ELSE [raised |-> "",
                  patterns |-> Concat([k \in 1..Len(v.items) |-> ParsePattern(v.items[k])])]
      [] v.t = "obj" /\ v.members = <<>> -> [raised |-> "", patterns |-> <<>>]
      [] v.t = "str" /\ v.s = "" -> [raised |-> "", patterns |-> <<>>]
      [] OTHER -> [raised |-> "TypeError", patterns |-> <<>>]

(* The score probes.  A probe finds a head, then separators ([:\s]+), then *)
(* a number written with digits only; re.search gives the leftmost match.  *)
(* DigitsAfter is the position of the digits after the head at p and at    *)
(* least seps separator tokens, 0 when there are none.                     *)
DigitsAfter(text, p, seps) ==
    LET IsSep(t) == t.k = "ws" \/ t = Punct(":")
        q == First({r \in (p + 1)..Len(text) : ~IsSep(text[r])})
    IN  IF q # 0 /\ q - (p + 1) >= seps /\ text[q].k = "num" /\ text[q].n >= 0
        THEN q ELSE 0

(* The number at the leftmost match; match[p] is the position of the       *)
(* digits of the match whose head is at p, 0 when there is none            *)
Leftmost(text, match) ==
    LET p == First({q \in 1..Len(text) : match[q] # 0})
    IN  IF p = 0 THEN None ELSE Some(text[match[p]].n)

(* Heads that end with "overall" and with "score", whatever the case *)
EndsOverall(t) == t.k \in {"word", "str"} /\ t.s \in {"overall", "Overall"}
EndsScore(t) == t.k = "word" /\ t.s \in {"Score", "score", "Overall Score", "overall score"}

(* overall["\s:]+(\d+): the closing quote of a string is a separator *)
ProbeOverall(text) ==
    Leftmost(text, [p \in 1..Len(text) |->
        IF EndsOverall(text[p])
        THEN DigitsAfter(text, p, IF text[p].k = "str" THEN 0 ELSE 1)
        ELSE 0])

(* Overall Score[:\s]+(\d+) *)
ProbeOverallScore(text) ==
    Leftmost(text, [p \in 1..Len(text) |->
        IF EndsScore(text[p]) /\ text[p].s \in {"Overall Score", "overall score"}
        THEN DigitsAfter(text, p, 1)
        ELSE 0])

(* "overall"[:\s]+(\d+) *)
ProbeQuotedOverall(text) ==
    Leftmost(text, [p \in 1..Len(text) |->
        IF EndsOverall(text[p]) /\ text[p].k = "str" THEN DigitsAfter(text, p, 1) ELSE 0])

(* Score[:\s]+(\d+)/100 *)
ProbeScorePerCent(text) ==
    Leftmost(text, [p \in 1..Len(text) |->
        LET q == IF EndsScore(text[p]) THEN DigitsAfter(text, p, 1) ELSE 0
        IN  IF q # 0 /\ q < Len(text) /\ text[q + 1] = Punct("/100") THEN q ELSE 0])

(* (\d+)/100: the digits of a number, whatever its sign *)
ProbePerCent(text) ==
    LET p == First({q \in 1..(Len(text) - 1) :
                        text[q].k = "num" /\ text[q + 1] = Punct("/100")})
    IN  IF p = 0 THEN None ELSE Some(Abs(text[p].n))

(* score[:\s]+(\d+) *)
ProbeScore(text) ==
    Leftmost(text, [p \in 1..Len(text) |->
        IF EndsScore(text[p]) THEN DigitsAfter(text, p, 1) ELSE 0])

(* The first match of a list of probe results, None when none matched *)
FirstMatch(matches) ==
    LET p == First({q \in 1..Len(matches) : matches[q] # None})
    IN  IF p = 0 THEN None ELSE matches[p]

NeutralScore == 50

(* TraceAnalyzer._fallback_parse_analysis: the first probe that matches    *)
(* gives the score, clamped; a score of 0 becomes the neutral default      *)
FallbackScoreKeepsZero(reply) ==
    LET m == FirstMatch(<<ProbeOverall(reply), ProbeOverallScore(reply),
                          ProbeQuotedOverall(reply), ProbeScorePerCent(reply)>>)
    IN  IF m = None THEN 0 ELSE Min(100, Max(0, m[1]))

FallbackScore(reply) ==
    LET m == FirstMatch(<<ProbeOverall(reply), ProbeOverallScore(reply),
                          ProbeQuotedOverall(reply), ProbeScorePerCent(reply)>>)
        score == IF m = None THEN 0 ELSE Min(100, Max(0, m[1]))
    IN  IF score = 0 THEN NeutralScore ELSE score

FallbackParseAnalysis(reply) ==
    [NewAnalysisResult EXCEPT
        !.overall_score = JNum(FallbackScore(reply)),
        !.recommendations =
            JList(<<JStr("Analysis parsing failed (error_msg). Using fallback extraction."),
                    JStr("Consider re-running analysis if results seem inconsistent.")>>),
        !.weaknesses = JList(<<JStr("JSON parsing failed - analysis may be incomplete")>>)]

(* TraceAnalyzer._extract_fallback_score: the first probe whose leftmost   *)
(* match is within 0..100 gives the score; 0 when there is none            *)
ExtractFallbackScore(reply) ==
    LET InRange(m) == IF m # None /\ m[1] >= 0 /\ m[1] <= 100 THEN m ELSE None
        m == FirstMatch(<<InRange(ProbeOverall(reply)), InRange(ProbeOverallScore(reply)),
                          InRange(ProbeQuotedOverall(reply)), InRange(ProbePerCent(reply)),
                          InRange(ProbeScore(reply))>>)
    IN  IF m = None THEN 0 ELSE m[1]

(* The end of _parse_analysis_response: the warning for a zero score with  *)
(* no patterns.  list.append on a value that is no list raises             *)
(* AttributeError.                                                         *)
WarnIfZero(r, reply) ==
    IF ~(r.overall_score = JNum(0) /\ r.patterns = <<>>) THEN Returns(r)
    ELSE IF r.weaknesses.t # "list" THEN Raises("AttributeError")
    ELSE LET warned == [r EXCEPT !.weaknesses = JList(Append(@.items,
                 JStr("WARNING: Analysis may have failed - score is 0 with no patterns detected")))]
             fallback_score == ExtractFallbackScore(reply)
         IN  IF fallback_score > 0
             THEN IF r.recommendations.t # "list" THEN Raises("AttributeError")
                  ELSE Returns([warned EXCEPT
                          !.overall_score = JNum(fallback_score),
                          !.recommendations =
                              JList(Append(@.items, JStr("Score extracted via fallback: "
                                                         \o ToString(fallback_score) \o ".0")))])
             ELSE Returns(warned)

(* TraceAnalyzer._parse_analysis_response.  Only JSONDecodeError (and      *)
(* KeyError, which nothing in the block raises) leads to the fallback;     *)
(* data.get and scores.get on a value that is no dict raise AttributeError *)
ParseAnalysisResponse(reply) ==
    LET loaded == JsonLoads(ExtractJsonText(reply))
    IN  IF ~loaded.ok THEN WarnIfZero(FallbackParseAnalysis(reply), reply)
        ELSE IF loaded.val.t # "obj" THEN Raises("AttributeError")
        ELSE LET data   == loaded.val.members
                 parsed == ParsePatterns(DictGet(data, "patterns", JList(<<>>)))
                 scores == DictGet(data, "scores", JObj(<<>>))
                 ScoreAt(key) == DictGet(scores.members, key, JNum(0))
             IN  IF parsed.raised # "" THEN Raises(parsed.raised)
                 ELSE IF scores.t # "obj" THEN Raises("AttributeError")
                 ELSE WarnIfZero(
                        [patterns           |-> parsed.patterns,
                         reasoning_clarity  |-> ScoreAt("reasoning_clarity"),
                         goal_adherence     |-> ScoreAt("goal_adherence"),
                         tool_usage_quality |-> ScoreAt("tool_usage_quality"),
                         error_recovery     |-> ScoreAt("error_recovery"),
                         overall_score      |-> ScoreAt("overall"),
                         strengths          |-> DictGet(data, "strengths", JList(<<>>)),
                         weaknesses         |-> DictGet(data, "weaknesses", JList(<<>>)),
                         recommendations    |-> DictGet(data, "recommendations", JList(<<>>))],
                        reply)

-----------------------------------------------------------------------------
(* The parse steps on their own: the reply is drawn, then parsed *)

(* The loop's variables, but for current_prompt, while a component is run  *)
(* on its own                                                              *)
LoopIdle ==
    /\ config = DefaultConfig(1, TRUE)
    /\ i = 0
    /\ best_score = 0
    /\ best_prompt = InitialPrompt
    /\ best_iteration = 0
    /\ consecutive_regressions = 0
    /\ trace = NoTrace
    /\ analysis = NoAnalysis
    /\ iteration_score = 0
    /\ should_continue = TRUE
    /\ optimization = None
    /\ result = NewResult

(* Texts around a body: none, a json-tagged fence, an untagged fence, and  *)
(* a fenced body between an opening sentence and a closing rating          *)
Wrappings(body) ==
    LET Fenced(tag) ==
            <<FenceTok(tag), WS("\n")>> \o body \o <<WS("\n"), FenceTok("")>>
    IN  {body,
         Fenced("json"),
         Fenced(""),
         <<Word("Here is my analysis."), WS("\n\n")>> \o Fenced("json")
            \o <<WS("\n\n"), Word("Overall Score"), Punct(":"), WS(" "), Num(85)>>}

(* The numbers drawn as scores *)
ScoreValues == {-5, 0, 42, 100, 150}

(* The replies drawn: JSON objects with each of the patterns, scores and   *)
(* weaknesses members absent, well typed or wrongly typed; JSON values     *)
(* that are no object; the same objects cut short; and prose with and      *)
(* without a rating                                                        *)
AnalyzerReplies ==
    LET Pattern(type) ==
            JObj(<<<<"type", JStr(type)>>, <<"severity", JStr("high")>>,
                   <<"description", JStr("Calls the tool twice")>>>>)
        patterns ==
            {Absent, JList(<<>>), JList(<<Pattern("tool_misuse")>>),
             JList(<<Pattern("laziness"), Pattern("tool_misuse")>>),
             JList(<<JNum(1)>>), JNull}
        scores ==
            {Absent, JNull, JList(<<>>), JObj(<<>>), JObj(<<<<"overall", JStr("high")>>>>)}
            \cup {JObj(<<<<"overall", JNum(n)>>>>) : n \in ScoreValues}
        weaknesses == {Absent, JList(<<JStr("Skips validation")>>), JStr("Skips validation")}
        Present(m) == m[2] # Absent
        objects ==
            {JObj(SelectSeq(<<<<"patterns", p>>, <<"scores", s>>, <<"weaknesses", w>>>>,
                            Present)) :
                p \in patterns, s \in scores, w \in weaknesses}
        others == {JList(<<JNum(1)>>), JNum(7), JStr("fine"), JNull}
        Truncated(body) == SubSeq(body, 1, Len(body) - 1)
        prose ==
            {<<Word("The agent did well.")>>,
             <<Word("overall"), Punct(":"), WS(" "), Num(-5)>>,
             <<Word("Rated"), WS(" "), Num(-5), Punct("/100")>>}
            \cup UNION {{<<Word("Overall Score"), Punct(":"), WS(" "), Num(n)>>,
                         <<Word("overall"), WS(" "), Num(n)>>,
                         <<Word("Score"), Punct(":"), WS(" "), Num(n), Punct("/100")>>,
                         <<Word("Rated"), WS(" "), Num(n), Punct("/100")>>} :
                            n \in ScoreValues \ {-5}}
        bodies ==
            {Dumps(v) : v \in objects \cup others}
            \cup {Truncated(Dumps(v)) : v \in objects}
            \cup prose
    IN  UNION {Wrappings(body) : body \in bodies}

AnalyzerInit ==
    /\ pc = "parse_analysis"
    /\ response_text \in AnalyzerReplies
    /\ got = None
    /\ IterativeIdle
    /\ current_prompt = InitialPrompt
    /\ LoopIdle
    /\ CaptureIdle

(* The parse step returns an AnalysisResult *)
ParseAnalysis ==
    /\ pc = "parse_analysis"
    /\ ParseAnalysisResponse(response_text).raised = ""
    /\ analysis' = ParseAnalysisResponse(response_text).result
    /\ pc' = "analysis_parsed"
    /\ UNCHANGED <<config, i, current_prompt, best_score, best_prompt, best_iteration,
                   consecutive_regressions, trace, iteration_score, should_continue,
                   optimization, result, parseVars, captureVars>>

(* The parse step raises an exception it does not catch *)
ParseAnalysisRaises ==
    /\ pc = "parse_analysis"
    /\ ParseAnalysisResponse(response_text).raised # ""
    /\ pc' = "raised"
    /\ UNCHANGED <<config, i, current_prompt, best_score, best_prompt, best_iteration,
                   consecutive_regressions, trace, analysis, iteration_score,
                   should_continue, optimization, result, parseVars, captureVars>>

-----------------------------------------------------------------------------
(* PromptOptimizer._parse_optimization_response and its fallback *)

JReal(s) == [t |-> "real", s |-> s]

MinMarkerLength == 50
MinBlockLength == 100

(* The fenced blocks re.findall gives for '''(?:text|markdown)?\n(.*?)''': *)
(* an opening fence is untagged or tagged text or markdown and is followed *)
(* by a newline; the block runs from after that newline to the next fence, *)
(* whatever its tag, and the search goes on after it.                      *)
RECURSIVE CodeBlocks(_, _)
CodeBlocks(text, from) ==
    LET Closing(p) == First({q \in (p + 2)..Len(text) : text[q].k = "fence"})
        open == First({p \in from..(Len(text) - 1) :
                          /\ text[p].k = "fence"
                          /\ text[p].s \in {"", "text", "markdown"}
                          /\ text[p + 1] \in {WS("\n"), WS("\n\n")}
                          /\ Closing(p) # 0})
        rest == IF text[open + 1] = WS("\n\n") THEN <<WS("\n")>> ELSE <<>>
    IN  IF open = 0 THEN <<>>
        ELSE <<rest \o SubSeq(text, open + 2, Closing(open) - 1)>>
             \o CodeBlocks(text, Closing(open) + 1)

(* The markers of the second strategy of _fallback_extract_prompt, in the  *)
(* order they are tried                                                    *)
Markers ==
    <<[start |-> "## Optimized Prompt", end |-> "##"],
      [start |-> "**Optimized Prompt**", end |-> "**"],
      [start |-> "OPTIMIZED PROMPT:", end |-> "\n\n"],
      [start |-> "Here is the improved prompt:", end |-> "\n\n---"]>>

(* The text between the first occurrence of a start marker and the next    *)
(* end marker, both ends stripped: None when either marker is missing      *)
Captured(reply, marker) ==
    LET EndAt(text, q, end) ==
            CASE end = "##" -> text[q] \in {Punct("##"), Word("## Optimized Prompt")}
              [] end = "**" -> text[q] \in {Punct("**"), Word("**Optimized Prompt**")}
              [] end = "\n\n" -> text[q] = WS("\n\n")
              [] end = "\n\n---" -> /\ text[q] = WS("\n\n")
                                    /\ q < Len(text)
                                    /\ text[q + 1] = Punct("---")
        p == First({q \in 1..Len(reply) : reply[q] = Word(marker.start)})
        remaining == Strip(SubSeq(reply, p + 1, Len(reply)))
        e == First({q \in 1..Len(remaining) : EndAt(remaining, q, marker.end)})
    IN  IF p = 0 \/ e = 0 THEN None
        ELSE Some(Render(Strip(SubSeq(remaining, 1, e - 1))))

(* The key of the first strategy: "optimized_prompt"\s*:\s*"([^"]+)"; 0 if  *)
(* the reply has no match                                                  *)
PromptKey(reply) ==
    LET NextToken(p) == First({q \in (p + 1)..Len(reply) : reply[q].k # "ws"})
        Value(p) == IF NextToken(p) = 0 THEN 0 ELSE NextToken(NextToken(p))
    IN  First({p \in 1..Len(reply) :
                  /\ reply[p] = Str("optimized_prompt")
                  /\ NextToken(p) # 0
                  /\ reply[NextToken(p)] = Punct(":")
                  /\ Value(p) # 0
                  /\ reply[Value(p)].k = "str"
                  /\ reply[Value(p)].s # ""})

(* PromptOptimizer._fallback_extract_prompt: None, or Some(the prompt) *)
FallbackExtractPrompt(reply) ==
    LET \* Strategy 1: the value of the key, unescaped
        NextToken(p) == First({q \in (p + 1)..Len(reply) : reply[q].k # "ws"})
        key == PromptKey(reply)
        \* Strategy 2: the first marker whose capture is long enough
        accepted == First({k \in 1..Len(Markers) :
                              /\ Captured(reply, Markers[k]) # None
                              /\ Len(Captured(reply, Markers[k])[1]) > MinMarkerLength})
        \* Strategy 3: a fenced block of prose
        blocks == CodeBlocks(reply, 1)
        StartsWithBrace(block) == Strip(block) # <<>> /\ Head(Strip(block)) = Punct("{")
        prose == First({k \in 1..Len(blocks) :
                           /\ ~StartsWithBrace(blocks[k])
                           /\ Len(Render(blocks[k])) > MinBlockLength})
    IN  IF key # 0 THEN Some(Unescape(reply[NextToken(NextToken(key))].s))
        ELSE IF accepted # 0 THEN Captured(reply, Markers[accepted])
        ELSE IF prose # 0 THEN Some(Render(Strip(blocks[prose])))
        ELSE None

(* The test of line 363: the fallback's prompt is adopted *)
AdoptedEvenIfSame(extracted, original_prompt) ==
    extracted # None /\ extracted[1] # ""

Adopted(extracted, original_prompt) ==
    extracted # None /\ extracted[1] # "" /\ extracted[1] # original_prompt

(* for d in data.get("diffs", []): d.get raises AttributeError on an       *)
(* element that is no dict; iterating a dict or a string gives strings,    *)
(* and a number or null is not iterable                                    *)
ParseDiffs(v) ==
    LET PromptDiff(d) ==
            [section   |-> DictGet(d.members, "section", JStr("unknown")),
             original  |-> DictGet(d.members, "original", JStr("")),
             optimized |-> DictGet(d.members, "optimized", JStr("")),
             reason    |-> DictGet(d.members, "reason", JStr(""))]
    IN  CASE v.t = "list" ->
                IF \E k \in 1..Len(v.items) : v.items[k].t # "obj"
                THEN [raised |-> "AttributeError", diffs |-> <<>>]
                ELSE [raised |-> "",
                      diffs |-> [k \in 1..Len(v.items) |-> PromptDiff(v.items[k])]]
          [] v.t = "obj" ->
                [raised |-> IF v.members = <<>> THEN "" ELSE "AttributeError", diffs |-> <<>>]
          [] v.t = "str" ->
                [raised |-> IF v.s = "" THEN "" ELSE "AttributeError", diffs |-> <<>>]
          [] OTHER -> [raised |-> "TypeError", diffs |-> <<>>]

(* PromptOptimizer._parse_optimization_response.  Only JSONDecodeError     *)
(* (and KeyError, which nothing in the block raises) leads to the          *)
(* fallback.                                                               *)
ParseOptimizationResponse(reply, original_prompt) ==
    LET new == [original_prompt       |-> original_prompt,
                optimized_prompt      |-> JStr(original_prompt),
                diffs                 |-> <<>>,
                predicted_improvement |-> JReal("0.0"),
                confidence            |-> JReal("0.0"),
                key_changes           |-> JList(<<>>)]
        loaded == JsonLoads(ExtractJsonText(reply))
        extracted == FallbackExtractPrompt(reply)
    IN  IF ~loaded.ok
        THEN IF Adopted(extracted, original_prompt)
             THEN Returns([new EXCEPT
                    !.optimized_prompt = JStr(extracted[1]),
                    !.key_changes = JList(<<JStr(
                        "JSON parsing failed (JSONDecodeError), extracted prompt via fallback")>>),
                    !.confidence = JReal("0.3")])
             ELSE Returns([new EXCEPT
                    !.key_changes = JList(<<JStr(
                        "Optimization parsing failed (JSONDecodeError) - using original prompt")>>)])
        ELSE IF loaded.val.t # "obj" THEN Raises("AttributeError")
        ELSE LET data   == loaded.val.members
                 parsed == ParseDiffs(DictGet(data, "diffs", JList(<<>>)))
             IN  IF parsed.raised # "" THEN Raises(parsed.raised)
                 ELSE Returns(
                        [original_prompt       |-> original_prompt,
                         optimized_prompt      |-> DictGet(data, "optimized_prompt",
                                                           JStr(original_prompt)),
                         diffs                 |-> parsed.diffs,
                         predicted_improvement |-> DictGet(data, "predicted_improvement", JNum(0)),
                         confidence            |-> DictGet(data, "confidence", JReal("0.5")),
                         key_changes           |-> DictGet(data, "key_changes", JList(<<>>))])

(* The prompts drawn: shorter than the marker minimum, of exactly the      *)
(* marker minimum, between the two minima, and longer than the block       *)
(* minimum                                                                 *)
ShortPrompt == "Plan first, then act."
BoundaryPrompt == "Plan first, then act; verify every tool's results."
MediumPrompt == "Plan first, then act; verify each tool result before you answer the user."
LongPrompt ==
    "Plan first, then act; verify each tool result before you answer the user, "
    \o "and say plainly when a tool has failed."

(* The replies drawn: JSON objects with each of the optimized_prompt and   *)
(* diffs members absent, well typed or wrongly typed; JSON values that are *)
(* no object; the same objects cut short; prompts after each marker and in *)
(* fenced blocks; a block of whitespace; and plain prose                   *)
OptimizerTexts ==
    LET prompts ==
            {Absent, JNull, JNum(3), JStr(""), JStr(InitialPrompt), JStr(ShortPrompt),
             JStr(LongPrompt), JStr("Be brief.\nPlan first.")}
        diffs ==
            {Absent, JNull, JList(<<>>), JList(<<JStr("tone")>>),
             JList(<<JObj(<<<<"section", JStr("tone")>>,
                            <<"reason", JStr("Too terse")>>>>)>>)}
        changes == {Absent, JList(<<JStr("Added planning")>>)}
        Present(m) == m[2] # Absent
        objects ==
            {JObj(SelectSeq(<<<<"optimized_prompt", p>>, <<"diffs", d>>,
                              <<"key_changes", c>>>>, Present)) :
                p \in prompts, d \in diffs, c \in changes}
        others == {JList(<<JNum(1)>>), JNum(7), JStr(LongPrompt), JNull}
        Truncated(body) == SubSeq(body, 1, Len(body) - 1)
        Marked(c) ==
            {<<Word("## Optimized Prompt"), WS("\n\n"), Word(c), WS("\n\n"), Punct("##"),
               WS(" "), Word("Notes")>>,
             <<Word("**Optimized Prompt**"), WS("\n"), Word(c), WS("\n"), Punct("**"),
               Word("Why"), Punct("**")>>,
             <<Word("OPTIMIZED PROMPT:"), WS("\n\n"), Word(c), WS("\n\n"), Word("Done.")>>,
             <<Word("OPTIMIZED PROMPT:"), WS("\n"), Word(c)>>,
             <<Word("Here is the improved prompt:"), WS("\n\n"), Word(c), WS("\n\n"),
               Punct("---")>>,
             <<FenceTok("text"), WS("\n"), Word(c), WS("\n"), FenceTok("")>>,
             <<Word("Use this:"), WS("\n\n"), Word(c)>>}
        blank == <<FenceTok(""), WS("\n")>> \o [k \in 1..(MinBlockLength + 1) |-> WS(" ")]
                 \o <<FenceTok("")>>
        bodies ==
            {Dumps(v) : v \in objects \cup others}
            \cup {Truncated(Dumps(v)) : v \in objects}
            \cup UNION {Marked(c) : c \in {ShortPrompt, BoundaryPrompt, MediumPrompt, LongPrompt}}
            \cup {blank}
    IN  UNION {Wrappings(body) : body \in bodies}

OptimizerInit ==
    /\ pc = "parse_optimization"
    /\ response_text \in OptimizerTexts
    /\ got = None
    /\ IterativeIdle
    /\ current_prompt \in {InitialPrompt, LongPrompt}
    /\ LoopIdle
    /\ CaptureIdle

(* The parse step returns an OptimizationResult *)
ParseOptimization ==
    /\ pc = "parse_optimization"
    /\ ParseOptimizationResponse(response_text, current_prompt).raised = ""
    /\ optimization' = Some(ParseOptimizationResponse(response_text, current_prompt).result)
    /\ pc' = "optimization_parsed"
    /\ UNCHANGED <<config, i, current_prompt, best_score, best_prompt, best_iteration,
                   consecutive_regressions, trace, analysis, iteration_score,
                   should_continue, result, parseVars, captureVars>>

(* The parse step raises an exception it does not catch *)
ParseOptimizationRaises ==
    /\ pc = "parse_optimization"
    /\ ParseOptimizationResponse(response_text, current_prompt).raised # ""
    /\ pc' = "raised"
    /\ UNCHANGED <<config, i, current_prompt, best_score, best_prompt, best_iteration,
                   consecutive_regressions, trace, analysis, iteration_score,
                   should_continue, optimization, result, parseVars, captureVars>>

ParseInit == AnalyzerInit \/ OptimizerInit

ParseNext ==
    \/ ParseAnalysis
    \/ ParseAnalysisRaises
    \/ ParseOptimization
    \/ ParseOptimizationRaises

ParseSpec == ParseInit /\ [][ParseNext]_vars

-----------------------------------------------------------------------------
(* Properties of the analyzer's parse step *)

Parsed == pc = "analysis_parsed"

(* json.loads raised JSONDecodeError on the text extracted from the reply *)
JsonExtractionFailed == ~JsonLoads(ExtractJsonText(response_text)).ok

(* The number the score probes of the fallback recover from the reply *)
Recovered ==
    FirstMatch(<<ProbeOverall(response_text), ProbeOverallScore(response_text),
                 ProbeQuotedOverall(response_text), ProbeScorePerCent(response_text)>>)

Overall == analysis.overall_score

(* C11: whatever the reply (JSON with any numeric scores, malformed JSON   *)
(* or prose), the overall score of the AnalysisResult returned is within   *)
(* 0..100.                                                                 *)
C11_OverallInRange ==
    (Parsed /\ Overall.t = "num") => (Overall.n >= 0 /\ Overall.n <= 100)

(* C12: when JSON extraction fails, a result is returned whose overall     *)
(* score is not 0, and is 50 when the probes recover no score; weaknesses  *)
(* holds the diagnostic and recommendations is not empty.                  *)
C12_NoZeroOnParseFailure ==
    JsonExtractionFailed =>
        /\ pc # "raised"
        /\ Parsed =>
            /\ Overall.t = "num" /\ Overall.n > 0
            /\ (Recovered = None => Overall.n = 50)
            /\ analysis.weaknesses.t = "list"
            /\ \E k \in 1..Len(analysis.weaknesses.items) :
                    analysis.weaknesses.items[k]
                        = JStr("JSON parsing failed - analysis may be incomplete")
            /\ analysis.recommendations.t = "list"
            /\ analysis.recommendations.items # <<>>

(* A reply that is no JSON and in which a probe recovers the score 0 was   *)
(* parsed: the result holds the neutral score.                             *)
C12_Witness ==
    /\ Parsed
    /\ JsonExtractionFailed
    /\ Recovered = Some(0)
    /\ Overall.n = 50

(* C13: when JSON extraction fails, the overall score is the number the    *)
(* probes recover if it is within 0..100, and 50 if they recover none or   *)
(* one outside 0..100.                                                     *)
C13_FallbackAdoption ==
    (Parsed /\ JsonExtractionFailed) =>
        Overall.n = IF Recovered # None /\ Recovered[1] >= 0 /\ Recovered[1] <= 100
                    THEN Recovered[1]
                    ELSE 50

-----------------------------------------------------------------------------
(* Properties of the optimizer's parse step *)

Optimized == pc = "optimization_parsed"

Extracted == FallbackExtractPrompt(response_text)


(* C33: in the marker scan of the fallback, the text captured between a    *)
(* start marker and its end marker is accepted as the optimized prompt if  *)
(* and only if its stripped length is at least 50: the prompt extracted is *)
(* the capture of the first marker whose capture has 50 characters or      *)
(* more, and no capture shorter than that is returned by the scan.         *)
C33_MarkerThreshold ==
    (Optimized /\ JsonExtractionFailed /\ PromptKey(response_text) = 0) =>
        LET CaptureOf(k) == Captured(response_text, Markers[k])
            enough == First({k \in 1..Len(Markers) :
                                /\ CaptureOf(k) # None
                                /\ Len(CaptureOf(k)[1]) >= MinMarkerLength})
        IN  /\ enough # 0 => Extracted = CaptureOf(enough)
            /\ \A k \in 1..Len(Markers) :
                  (enough = 0 /\ CaptureOf(k) # None /\ CodeBlocks(response_text, 1) = <<>>)
                      => Extracted = None
(* C14: whatever the reply, and for a non-empty original prompt, the       *)
(* OptimizationResult returned has an optimized_prompt that is a non-empty *)
(* string.                                                                 *)
C14_PromptNeverEmpty ==
    (Optimized /\ current_prompt # "") =>
        /\ optimization[1].optimized_prompt.t = "str"
        /\ optimization[1].optimized_prompt.s # ""

(* C15: when JSON extraction fails, a result is returned; if a fallback    *)
(* strategy yields a prompt (a non-empty text) distinct from the original, *)
(* optimized_prompt is that prompt, confidence is 0.3 and key_changes is   *)
(* the fallback note; otherwise optimized_prompt is the original prompt    *)
(* and key_changes is the failure note.                                    *)
C15_OptimizerFallback ==
    (pc \in {"optimization_parsed", "raised"} /\ JsonExtractionFailed) =>
        /\ Optimized
        /\ IF Extracted # None /\ Extracted[1] # "" /\ Extracted[1] # current_prompt
           THEN /\ optimization[1].optimized_prompt = JStr(Extracted[1])
                /\ optimization[1].confidence = JReal("0.3")
                /\ optimization[1].key_changes = JList(<<JStr(
                     "JSON parsing failed (JSONDecodeError), extracted prompt via fallback")>>)
           ELSE /\ optimization[1].optimized_prompt = JStr(current_prompt)
                /\ optimization[1].key_changes = JList(<<JStr(
                     "Optimization parsing failed (JSONDecodeError) - using original prompt")>>)

(* A prompt found by a fallback strategy is adopted in place of the        *)
(* original, and a prompt equal to the original is not.                    *)
C15_Witness ==
    /\ Optimized
    /\ JsonExtractionFailed
    /\ \/ /\ Extracted = Some(LongPrompt)
          /\ current_prompt = InitialPrompt
          /\ optimization[1].optimized_prompt = JStr(LongPrompt)
       \/ /\ Extracted = Some(LongPrompt)
          /\ current_prompt = LongPrompt
          /\ optimization[1].confidence = JReal("0.0")

(* C16: for every shape of reply text (prose, malformed JSON, valid JSON   *)
(* that is no object, a JSON object with wrongly typed fields) the parse   *)
(* step of the analyzer and of the optimizer returns a result and raises   *)
(* no exception.                                                           *)
C16_ParseNeverRaises == pc # "raised"

-----------------------------------------------------------------------------
(* TraceCapture.run: the conversation with the model, turn by turn.        *)
(* Optional fields (str | None, bool | None) are None or Some(value).      *)
(* Token counts and timestamps are left out.                               *)

MaxTurns == 3

Task == "What is the population of Oslo?"

(* Content blocks of a model response *)
Thinking(c) == [type |-> "thinking", thinking |-> c]
Text(s) == [type |-> "text", text |-> s]
ToolUse(id, name) == [type |-> "tool_use", id |-> id, name |-> name,
                      input |-> [query |-> "Oslo"]]

(* What a call of the executor does *)
Gives(s) == [raised |-> FALSE, text |-> s]
Fails(msg) == [raised |-> TRUE, text |-> msg]

(* The executors drawn: functions of the tool's name that return, or raise *)
(* with a message or with an empty one                                     *)
Executors ==
    [{"search", "calc"} -> {Gives("709000"), Fails("connection refused"), Fails("")}]

(* The responses the model may give at a turn: no block at all, text with  *)
(* and without thinking, thinking alone, and tool uses before, after and   *)
(* around thinking and text.  Tool-use ids are unique in a conversation.   *)
Contents(t) ==
    LET a == ToolUse("toolu_" \o ToString(t) \o "a", "search")
        b == ToolUse("toolu_" \o ToString(t) \o "b", "calc")
    IN  {<<>>,
         <<Text("Oslo has 709000 inhabitants."), Text("Anything else?")>>,
         <<Thinking("I can answer now."), Text("Oslo has 709000 inhabitants.")>>,
         <<Thinking("I am not sure.")>>,
         <<Thinking("Look it up."), a>>,
         <<a, Thinking("Then compute."), b>>,
         <<Thinking("Both at once."), Text("Working on it."), b, a>>}

OfType(content, type) ==
    LET Is(block) == block.type = type IN SelectSeq(content, Is)

NewReasoningTrace(task, system_prompt) ==
    [task            |-> task,
     system_prompt   |-> system_prompt,
     thinking_blocks |-> <<>>,
     tool_calls      |-> <<>>,
     final_response  |-> None,
     total_turns     |-> 0,
     total_tokens    |-> 0,
     success         |-> None,
     error           |-> None]

(* The usage the provider reports with a response *)
Usage(content) == [input_tokens |-> 100, output_tokens |-> 20 * Len(content)]

(* TraceCapture._process_response: the trace after the thinking blocks of  *)
(* the response have been appended, in the order of the content, and its   *)
(* tokens counted                                                          *)
ProcessResponse(content, t, tr) ==
    LET blocks == OfType(content, "thinking")
    IN  [tr EXCEPT !.thinking_blocks =
                        @ \o [k \in 1..Len(blocks) |->
                                [content          |-> blocks[k].thinking,
                                 turn_index       |-> t,
                                 following_action |-> None]],
                   !.total_tokens = @ + Usage(content).input_tokens
                                      + Usage(content).output_tokens]

(* The tool-use blocks of a response, in the order of the content *)
ToolUseBlocksReversed(content) ==
    LET blocks == OfType(content, "tool_use")
    IN  [k \in 1..Len(blocks) |-> blocks[Len(blocks) + 1 - k]]

ToolUseBlocks(content) == OfType(content, "tool_use")

(* The outcome of the executor call of lines 207-210 *)
Execute(executor, tool_block) ==
    IF executor # None THEN executor[tool_block.name]
    ELSE Gives("[Mock result for " \o tool_block.name \o "]")

(* The string _execute_tool returns to run() *)
ToolResultBare(outcome) == outcome.text

ToolResult(outcome) ==
    IF outcome.raised THEN "Error: " \o outcome.text ELSE outcome.text

(* The ToolCall _execute_tool records *)
ToolCallWithoutError(tool_block, t, outcome) ==
    [id |-> tool_block.id, name |-> tool_block.name, input |-> tool_block.input,
     turn_index |-> t, result |-> Some(ToolResult(outcome)),
     success |-> Some(~outcome.raised), error |-> None]

ToolCall(tool_block, t, outcome) ==
    [id         |-> tool_block.id,
     name       |-> tool_block.name,
     input      |-> tool_block.input,
     turn_index |-> t,
     result     |-> Some(ToolResult(outcome)),
     success    |-> Some(~outcome.raised),
     error      |-> IF outcome.raised THEN Some(outcome.text) ELSE None]

(* Lines 221-227: the call is appended and the last thinking block, when   *)
(* it is of this turn, is linked to it                                     *)
RecordToolCall(tr, tool_call, t) ==
    LET n == Len(tr.thinking_blocks)
        appended == [tr EXCEPT !.tool_calls = Append(@, tool_call)]
    IN  IF n > 0 /\ tr.thinking_blocks[n].turn_index = t
        THEN [appended EXCEPT !.thinking_blocks[n].following_action =
                                    Some("tool_use:" \o tool_call.name)]
        ELSE appended

(* run() is called: lines 85-94 *)
CaptureInit ==
    /\ pc = "call"
    /\ max_turns \in 0..MaxTurns
    /\ tool_executor \in {None} \cup Executors
    /\ current_prompt = InitialPrompt
    /\ trace = NewReasoningTrace(Task, current_prompt)
    /\ messages = <<[role |-> "user", content |-> Task]>>
    /\ turn = 0
    /\ tool_use_blocks = <<>>
    /\ tool_results = <<>>
    /\ responses = <<>>
    /\ config = DefaultConfig(1, TRUE)
    /\ i = 0
    /\ best_score = 0
    /\ best_prompt = InitialPrompt
    /\ best_iteration = 0
    /\ consecutive_regressions = 0
    /\ analysis = NoAnalysis
    /\ iteration_score = 0
    /\ should_continue = TRUE
    /\ optimization = None
    /\ result = NewResult
    /\ ParseIdle

(* Lines 97-125, with the reasoning left out of the history *)
CallModelDroppingReasoning ==
    /\ pc = "call"
    /\ turn < max_turns
    /\ \E content \in Contents(turn) :
        LET processed == ProcessResponse(content, turn, trace)
            text_blocks == OfType(content, "text")
        IN  /\ responses' = Append(responses, content)
            /\ IF ToolUseBlocks(content) = <<>>
               THEN /\ trace' = [processed EXCEPT
                            !.final_response = IF text_blocks # <<>>
                                               THEN Some(text_blocks[1].text)
                                               ELSE None,
                            !.success = Some(TRUE)]
                    /\ pc' = "returned"
                    /\ UNCHANGED <<messages, tool_use_blocks, tool_results>>
               ELSE /\ trace' = processed
                    /\ messages' = Append(messages,
                                          [role |-> "assistant",
                                           content |-> text_blocks \o ToolUseBlocks(content)])
                    /\ tool_use_blocks' = ToolUseBlocks(content)
                    /\ tool_results' = <<>>
                    /\ pc' = "tools"
    /\ UNCHANGED <<config, i, current_prompt, best_score, best_prompt, best_iteration,
                   consecutive_regressions, analysis, iteration_score, should_continue,
                   optimization, result, parseVars, turn, max_turns, tool_executor>>

(* Lines 97-125: the model answers the request of this turn.  Without a    *)
(* tool use the run ends (the check of line 148 then finds success set);   *)
(* with one, the response joins the history and its tools are to be run.   *)
CallModel ==
    /\ pc = "call"
    /\ turn < max_turns
    /\ \E content \in Contents(turn) :
        LET processed == ProcessResponse(content, turn, trace)
            text_blocks == OfType(content, "text")
        IN  /\ responses' = Append(responses, content)
            /\ IF ToolUseBlocks(content) = <<>>
               THEN /\ trace' = [processed EXCEPT
                            !.final_response = IF text_blocks # <<>>
                                               THEN Some(text_blocks[1].text)
                                               ELSE None,
                            !.success = Some(TRUE)]
                    /\ pc' = "returned"
                    /\ UNCHANGED <<messages, tool_use_blocks, tool_results>>
               ELSE /\ trace' = processed
                    /\ messages' = Append(messages,
                                          [role |-> "assistant", content |-> content])
                    /\ tool_use_blocks' = ToolUseBlocks(content)
                    /\ tool_results' = <<>>
                    /\ pc' = "tools"
    /\ UNCHANGED <<config, i, current_prompt, best_score, best_prompt, best_iteration,
                   consecutive_regressions, analysis, iteration_score, should_continue,
                   optimization, result, parseVars, turn, max_turns, tool_executor>>

(* Lines 109 and 152-154, with the trace started afresh *)
CallModelRaisesLosingTrace ==
    /\ pc = "call"
    /\ turn < max_turns
    /\ trace' = [NewReasoningTrace(Task, current_prompt) EXCEPT
                    !.success = Some(FALSE),
                    !.error = Some("Connection error.")]
    /\ pc' = "returned"
    /\ UNCHANGED <<config, i, current_prompt, best_score, best_prompt, best_iteration,
                   consecutive_regressions, analysis, iteration_score, should_continue,
                   optimization, result, parseVars, captureVars>>

(* Lines 109 and 152-154: the request raises *)
CallModelRaises ==
    /\ pc = "call"
    /\ turn < max_turns
    /\ trace' = [trace EXCEPT !.success = Some(FALSE),
                              !.error = Some("Connection error.")]
    /\ pc' = "returned"
    /\ UNCHANGED <<config, i, current_prompt, best_score, best_prompt, best_iteration,
                   consecutive_regressions, analysis, iteration_score, should_continue,
                   optimization, result, parseVars, captureVars>>

(* Lines 129-145: the next tool use of the turn is executed and its result *)
(* collected; after the last one the results join the history and the turn *)
(* is counted.                                                             *)
ExecuteTool ==
    /\ pc = "tools"
    /\ LET tool_block == Head(tool_use_blocks)
           outcome == Execute(tool_executor, tool_block)
           collected == Append(tool_results,
                               [type        |-> "tool_result",
                                tool_use_id |-> tool_block.id,
                                content     |-> ToolResult(outcome)])
           recorded == RecordToolCall(trace, ToolCall(tool_block, turn, outcome), turn)
       IN  /\ tool_use_blocks' = Tail(tool_use_blocks)
           /\ tool_results' = collected
           /\ IF Tail(tool_use_blocks) = <<>>
              THEN /\ messages' = Append(messages,
                                         [role |-> "user", content |-> collected])
                   /\ turn' = turn + 1
                   /\ trace' = [recorded EXCEPT !.total_turns = turn + 1]
                   /\ pc' = "call"
              ELSE /\ trace' = recorded
                   /\ UNCHANGED <<messages, turn, pc>>
    /\ UNCHANGED <<config, i, current_prompt, best_score, best_prompt, best_iteration,
                   consecutive_regressions, analysis, iteration_score, should_continue,
                   optimization, result, parseVars, max_turns, tool_executor, responses>>

(* Lines 97 and 148-150, without the check of line 148 *)
ReachedMaxTurnsUnnoticed ==
    /\ pc = "call"
    /\ turn >= max_turns
    /\ pc' = "returned"
    /\ UNCHANGED <<config, i, current_prompt, best_score, best_prompt, best_iteration,
                   consecutive_regressions, analysis, iteration_score, should_continue,
                   optimization, result, parseVars, captureVars, trace>>

(* Lines 97 and 148-150: the loop ends with the turns used up *)
ReachedMaxTurns ==
    /\ pc = "call"
    /\ turn >= max_turns
    /\ trace' = IF trace.success # Some(TRUE)
                THEN [trace EXCEPT
                        !.success = Some(FALSE),
                        !.error = Some("Reached maximum turns (" \o ToString(max_turns)
                                       \o ") without completion")]
                ELSE trace
    /\ pc' = "returned"
    /\ UNCHANGED <<config, i, current_prompt, best_score, best_prompt, best_iteration,
                   consecutive_regressions, analysis, iteration_score, should_continue,
                   optimization, result, parseVars, captureVars>>

CaptureNext ==
    \/ CallModel
    \/ CallModelRaises
    \/ ExecuteTool
    \/ ReachedMaxTurns

CaptureSpec == CaptureInit /\ [][CaptureNext]_vars

-----------------------------------------------------------------------------
-----------------------------------------------------------------------------
(* TraceCapture.run_streaming, called after run() has returned with the    *)
(* same arguments, the same executor and a provider that replays the       *)
(* responses it gave to run() (and fails where it failed).  The callbacks  *)
(* on_thinking, on_text, on_tool_call and on_error are left at None.       *)

(* run_streaming() is called: lines 269-278.  What run() returned and the  *)
(* history it ended with are kept for comparison.                          *)
CallRunStreaming ==
    /\ pc = "returned"
    /\ ran = None
    /\ ran' = Some([trace |-> trace, messages |-> messages])
    /\ trace' = NewReasoningTrace(Task, current_prompt)
    /\ messages' = <<[role |-> "user", content |-> Task]>>
    /\ turn' = 0
    /\ tool_use_blocks' = <<>>
    /\ tool_results' = <<>>
    /\ pc' = "stream"
    /\ UNCHANGED <<config, i, current_prompt, best_score, best_prompt, best_iteration,
                   consecutive_regressions, analysis, iteration_score, should_continue,
                   optimization, result, response_text, got, analyses, optimize_calls,
                   max_turns, tool_executor, responses>>

(* Line 347 with the history built from the text and the tool uses only *)
AssistantMessageWithoutThinking(content) ==
    [role |-> "assistant", content |-> OfType(content, "text") \o OfType(content, "tool_use")]

(* Line 347: the final message joins the history *)
AssistantMessage(content) == [role |-> "assistant", content |-> content]

(* Lines 281-347: the response of this turn is streamed.  The thinking     *)
(* deltas of the whole response make one buffer, recorded as one block     *)
(* when it is not empty; the text deltas make the final response; the tool *)
(* uses are those of the final message.                                    *)
StreamModel ==
    /\ pc = "stream"
    /\ turn < max_turns
    /\ turn < Len(responses)
    /\ LET content == responses[turn + 1]
           RECURSIVE Joined(_, _)
           Joined(blocks, field) ==
               IF blocks = <<>> THEN ""
               ELSE Head(blocks)[field] \o Joined(Tail(blocks), field)
           thinking_buffer == Joined(OfType(content, "thinking"), "thinking")
           text_buffer == Joined(OfType(content, "text"), "text")
           recorded ==
               [trace EXCEPT
                   !.thinking_blocks =
                        IF thinking_buffer # ""
                        THEN Append(@, [content          |-> thinking_buffer,
                                        turn_index       |-> turn,
                                        following_action |-> None])
                        ELSE @,
                   !.total_tokens = @ + Usage(content).input_tokens
                                      + Usage(content).output_tokens]
       IN  IF ToolUseBlocks(content) = <<>>
           THEN /\ trace' = [recorded EXCEPT
                                !.final_response = IF text_buffer # ""
                                                   THEN Some(text_buffer)
                                                   ELSE None,
                                !.success = Some(TRUE)]
                /\ pc' = "streamed"
                /\ UNCHANGED <<messages, tool_use_blocks, tool_results>>
           ELSE /\ trace' = recorded
                /\ messages' = Append(messages, AssistantMessage(content))
                /\ tool_use_blocks' = ToolUseBlocks(content)
                /\ tool_results' = <<>>
                /\ pc' = "stream_tools"
    /\ UNCHANGED <<config, i, current_prompt, best_score, best_prompt, best_iteration,
                   consecutive_regressions, analysis, iteration_score, should_continue,
                   optimization, result, parseVars, turn, max_turns, tool_executor,
                   responses>>

(* Lines 298 and 369-373: the stream raises, where the request of run()    *)
(* raised                                                                  *)
StreamModelRaises ==
    /\ pc = "stream"
    /\ turn < max_turns
    /\ turn >= Len(responses)
    /\ trace' = [trace EXCEPT !.success = Some(FALSE),
                              !.error = Some("Connection error.")]
    /\ pc' = "streamed"
    /\ UNCHANGED <<config, i, current_prompt, best_score, best_prompt, best_iteration,
                   consecutive_regressions, analysis, iteration_score, should_continue,
                   optimization, result, parseVars, captureVars>>

(* Lines 350-363: the tools of the turn are executed by _execute_tool, as  *)
(* in run()                                                                *)
StreamExecuteTool ==
    /\ pc = "stream_tools"
    /\ LET tool_block == Head(tool_use_blocks)
           outcome == Execute(tool_executor, tool_block)
           collected == Append(tool_results,
                               [type        |-> "tool_result",
                                tool_use_id |-> tool_block.id,
                                content     |-> ToolResult(outcome)])
           recorded == RecordToolCall(trace, ToolCall(tool_block, turn, outcome), turn)
       IN  /\ tool_use_blocks' = Tail(tool_use_blocks)
           /\ tool_results' = collected
           /\ IF Tail(tool_use_blocks) = <<>>
              THEN /\ messages' = Append(messages,
                                         [role |-> "user", content |-> collected])
                   /\ turn' = turn + 1
                   /\ trace' = [recorded EXCEPT !.total_turns = turn + 1]
                   /\ pc' = "stream"
              ELSE /\ trace' = recorded
                   /\ UNCHANGED <<messages, turn, pc>>
    /\ UNCHANGED <<config, i, current_prompt, best_score, best_prompt, best_iteration,
                   consecutive_regressions, analysis, iteration_score, should_continue,
                   optimization, result, parseVars, max_turns, tool_executor, responses>>

(* Lines 281 and 365-367: the loop ends with the turns used up *)
StreamReachedMaxTurns ==
    /\ pc = "stream"
    /\ turn >= max_turns
    /\ trace' = IF trace.success # Some(TRUE)
                THEN [trace EXCEPT
                        !.success = Some(FALSE),
                        !.error = Some("Reached maximum turns (" \o ToString(max_turns)
                                       \o ")")]
                ELSE trace
    /\ pc' = "streamed"
    /\ UNCHANGED <<config, i, current_prompt, best_score, best_prompt, best_iteration,
                   consecutive_regressions, analysis, iteration_score, should_continue,
                   optimization, result, parseVars, captureVars>>

StreamingNext ==
    \/ CaptureNext
    \/ CallRunStreaming
    \/ StreamModel
    \/ StreamModelRaises
    \/ StreamExecuteTool
    \/ StreamReachedMaxTurns

StreamingSpec == CaptureInit /\ [][StreamingNext]_vars

-----------------------------------------------------------------------------
(* The getters of ReasoningTrace, on traces built by hand: any list of     *)
(* turn indices, in any order.                                             *)

MaxBlocks == 3

(* ReasoningTrace.get_thinking_at_turn: None or Some(block) *)
GetThinkingAtTurnLast(tr, t) ==
    LET hits == {k \in 1..Len(tr.thinking_blocks) : tr.thinking_blocks[k].turn_index = t}
    IN  IF hits = {} THEN None
        ELSE Some(tr.thinking_blocks[CHOOSE k \in hits : \A h \in hits : h <= k])

GetThinkingAtTurn(tr, t) ==
    LET RECURSIVE Scan(_)
        Scan(blocks) ==
            IF blocks = <<>> THEN None
            ELSE IF Head(blocks).turn_index = t THEN Some(Head(blocks))
            ELSE Scan(Tail(blocks))
    IN  Scan(tr.thinking_blocks)

(* ReasoningTrace.get_tool_calls_at_turn *)
GetToolCallsAtTurn(tr, t) ==
    LET AtTurn(tc) == tc.turn_index = t
    IN  SelectSeq(tr.tool_calls, AtTurn)

(* The traces drawn: up to MaxBlocks thinking blocks and as many tool      *)
(* calls, the k-th of each with the k-th of a list of turn indices         *)
GetterTraces ==
    LET lists == UNION {[1..n -> 0..(MaxTurns - 1)] : n \in 0..MaxBlocks}
    IN  {[NewReasoningTrace(Task, InitialPrompt) EXCEPT
            !.thinking_blocks =
                [k \in 1..Len(turns) |->
                    [content          |-> "Thought " \o ToString(k),
                     turn_index       |-> turns[k],
                     following_action |-> None]],
            !.tool_calls =
                [k \in 1..Len(turns) |->
                    ToolCall(ToolUse("toolu_" \o ToString(k), "search"), turns[k],
                             Gives("709000"))]] :
         turns \in lists}

GetterInit ==
    /\ pc = "get"
    /\ trace \in GetterTraces
    /\ turn \in 0..MaxTurns
    /\ got = None
    /\ response_text = <<>>
    /\ IterativeIdle
    /\ messages = <<>>
    /\ max_turns = 0
    /\ tool_executor = None
    /\ tool_use_blocks = <<>>
    /\ tool_results = <<>>
    /\ responses = <<>>
    /\ config = DefaultConfig(1, TRUE)
    /\ i = 0
    /\ current_prompt = InitialPrompt
    /\ best_score = 0
    /\ best_prompt = InitialPrompt
    /\ best_iteration = 0
    /\ consecutive_regressions = 0
    /\ analysis = NoAnalysis
    /\ iteration_score = 0
    /\ should_continue = TRUE
    /\ optimization = None
    /\ result = NewResult

(* trace.get_thinking_at_turn(turn) is called *)
GetThinking ==
    /\ pc = "get"
    /\ got' = Some([get_thinking_at_turn |-> GetThinkingAtTurn(trace, turn)])
    /\ pc' = "got_thinking"
    /\ UNCHANGED <<config, i, current_prompt, best_score, best_prompt, best_iteration,
                   consecutive_regressions, trace, analysis, iteration_score,
                   should_continue, optimization, result, response_text, analyses,
                   optimize_calls, ran, captureVars>>

(* then trace.get_tool_calls_at_turn(turn) *)
GetToolCalls ==
    /\ pc = "got_thinking"
    /\ got' = Some([get_thinking_at_turn   |-> got[1].get_thinking_at_turn,
                    get_tool_calls_at_turn |-> GetToolCallsAtTurn(trace, turn)])
    /\ pc' = "got_both"
    /\ UNCHANGED <<config, i, current_prompt, best_score, best_prompt, best_iteration,
                   consecutive_regressions, trace, analysis, iteration_score,
                   should_continue, optimization, result, response_text, analyses,
                   optimize_calls, ran, captureVars>>

GetterNext ==
    \/ GetThinking
    \/ GetToolCalls

GetterSpec == GetterInit /\ [][GetterNext]_vars

(* The positions of the blocks of a list that are of the turn asked for *)
Hits(list) == {k \in 1..Len(list) : list[k].turn_index = turn}

(* C25: get_thinking_at_turn(t) returns the first thinking block in list   *)
(* order whose turn_index is t, or None when there is none;                *)
(* get_tool_calls_at_turn(t) returns exactly the tool calls whose          *)
(* turn_index is t, in the order of the trace (the empty list when there   *)
(* is none).                                                               *)
C25_Getters ==
    /\ pc \in {"got_thinking", "got_both"} =>
          LET hits == Hits(trace.thinking_blocks)
              r == got[1].get_thinking_at_turn
          IN  IF hits = {} THEN r = None
              ELSE \E k \in hits :
                      /\ r = Some(trace.thinking_blocks[k])
                      /\ \A h \in hits : k <= h
    /\ pc = "got_both" =>
          LET hits == Hits(trace.tool_calls)
              r == got[1].get_tool_calls_at_turn
              Nth(j) == CHOOSE k \in hits : Cardinality({h \in hits : h <= k}) = j
          IN  /\ Len(r) = Cardinality(hits)
              /\ \A j \in 1..Len(r) : r[j] = trace.tool_calls[Nth(j)]

(* Both getters were called for a turn that two blocks are of, neither     *)
(* the first of the list, with a block of another turn between them        *)
C25_Witness ==
    /\ pc = "got_both"
    /\ Hits(trace.thinking_blocks) = {2, 3}
    /\ got[1].get_thinking_at_turn = Some(trace.thinking_blocks[2])
    /\ Len(got[1].get_tool_calls_at_turn) = 2
    /\ trace.tool_calls[1].turn_index > turn

-----------------------------------------------------------------------------
(* Properties of TraceCapture.run *)

CaptureReturned == pc = "returned" /\ messages # <<>>

(* What the model emitted, in order of turn and of position in the         *)
(* content: responses[k] is the response of turn k - 1                     *)
RECURSIVE Emitted(_, _)
Emitted(type, n) ==
    IF n = 0 THEN <<>>
    ELSE Emitted(type, n - 1)
         \o [k \in 1..Len(OfType(responses[n], type)) |->
                [block |-> OfType(responses[n], type)[k], turn_index |-> n - 1]]

EmittedThinking == Emitted("thinking", Len(responses))
EmittedToolUses == Emitted("tool_use", Len(responses))

NonDecreasing(list) ==
    \A j, k \in 1..Len(list) : j < k => list[j].turn_index <= list[k].turn_index

(* C17: in the trace of a run, at every step and at its return, the turn   *)
(* indices of thinking_blocks and of tool_calls never decrease along the   *)
(* list, and the two lists are the thinking blocks and the tool uses the   *)
(* model emitted, in order of turn and then of position in the content     *)
(* (tool uses as far as they have been executed, all of them once the run  *)
(* has returned).                                                          *)
C17_EmissionOrder ==
    messages # <<>> =>
        /\ NonDecreasing(trace.thinking_blocks)
        /\ NonDecreasing(trace.tool_calls)
        /\ Len(trace.thinking_blocks) = Len(EmittedThinking)
        /\ \A k \in 1..Len(trace.thinking_blocks) :
              /\ trace.thinking_blocks[k].content = EmittedThinking[k].block.thinking
              /\ trace.thinking_blocks[k].turn_index = EmittedThinking[k].turn_index
        /\ Len(trace.tool_calls) <= Len(EmittedToolUses)
        /\ pc \in {"call", "returned"} => Len(trace.tool_calls) = Len(EmittedToolUses)
        /\ \A k \in 1..Len(trace.tool_calls) :
              /\ trace.tool_calls[k].id = EmittedToolUses[k].block.id
              /\ trace.tool_calls[k].turn_index = EmittedToolUses[k].turn_index

(* A returned trace with two tool calls of one turn, a tool call of a      *)
(* later turn and thinking blocks of two turns                             *)
C17_Witness ==
    /\ CaptureReturned
    /\ \E j, k \in 1..Len(trace.tool_calls) :
          /\ j < k
          /\ trace.tool_calls[j].turn_index = 0
          /\ trace.tool_calls[j + 1].turn_index = 0
          /\ trace.tool_calls[k].turn_index = 1
    /\ \E j, k \in 1..Len(trace.thinking_blocks) :
          trace.thinking_blocks[j].turn_index < trace.thinking_blocks[k].turn_index

(* C18: once run has returned, every ToolCall of the trace has success     *)
(* true or false, never unset, and its error is set exactly when success   *)
(* is false.                                                               *)
C18_ToolCallOutcome ==
    CaptureReturned =>
        \A k \in 1..Len(trace.tool_calls) :
            /\ trace.tool_calls[k].success \in {Some(TRUE), Some(FALSE)}
            /\ trace.tool_calls[k].error # None
                    <=> trace.tool_calls[k].success = Some(FALSE)

(* A returned trace with a failed and a successful tool call *)
C18_Witness ==
    /\ CaptureReturned
    /\ \E j, k \in 1..Len(trace.tool_calls) :
          /\ trace.tool_calls[j].success = Some(FALSE)
          /\ trace.tool_calls[j].error = Some("connection refused")
          /\ trace.tool_calls[k].success = Some(TRUE)
          /\ trace.tool_calls[k].error = None

(* The executor raises for the k-th tool use the model emitted *)
ExecutorRaises(k) ==
    /\ tool_executor # None
    /\ tool_executor[EmittedToolUses[k].block.name].raised

(* The tool results the model has been given or is about to be given: the  *)
(* user messages of the finished turns, and the results collected in this  *)
(* turn                                                                    *)
ResultGiven(id, content) ==
    LET entry == [type |-> "tool_result", tool_use_id |-> id, content |-> content]
        In(list) == \E n \in 1..Len(list) : list[n] = entry
    IN  \/ pc = "tools" /\ In(tool_results)
        \/ \E n \in 2..Len(messages) :
              messages[n].role = "user" /\ In(messages[n].content)

(* C19: when the executor raises for a tool use, the run goes on: the      *)
(* ToolCall is recorded with success false and the exception's message as  *)
(* error, the result "Error: <message>" is given to the model under the    *)
(* id of that tool use, the other tool uses of the turn are executed in    *)
(* the order emitted, and the conversation goes on to the next turn (the   *)
(* failure leaves the trace's own success and error alone).                *)
C19_ExecutorFailureCaptured ==
    messages # <<>> =>
        /\ \A k \in 1..Len(trace.tool_calls) :
              ExecutorRaises(k) =>
                  /\ trace.tool_calls[k].success = Some(FALSE)
                  /\ trace.tool_calls[k].error
                        = Some(tool_executor[trace.tool_calls[k].name].text)
                  /\ ResultGiven(EmittedToolUses[k].block.id,
                                 "Error: " \o tool_executor[trace.tool_calls[k].name].text)
        /\ \A k \in 1..Len(trace.tool_calls) :
              trace.tool_calls[k].id = EmittedToolUses[k].block.id
        /\ pc = "tools" =>
              /\ tool_use_blocks # <<>>
              /\ Len(trace.tool_calls) + Len(tool_use_blocks) = Len(EmittedToolUses)
              /\ trace.success = None /\ trace.error = None
        /\ pc = "call" =>
              /\ Len(trace.tool_calls) = Len(EmittedToolUses)
              /\ turn = Len(responses)
              /\ trace.success = None /\ trace.error = None
        /\ pc = "returned" =>
              /\ Len(trace.tool_calls) = Len(EmittedToolUses)
              /\ trace.error \in
                    {None, Some("Connection error."),
                     Some("Reached maximum turns (" \o ToString(max_turns)
                          \o ") without completion")}

(* The first tool use of a turn failed, the second one was executed, and   *)
(* the model went on to answer in a later turn                             *)
C19_Witness ==
    /\ CaptureReturned
    /\ Len(trace.tool_calls) >= 2
    /\ ExecutorRaises(1)
    /\ trace.tool_calls[1].result = Some("Error: connection refused")
    /\ trace.tool_calls[2].turn_index = 0
    /\ trace.tool_calls[2].success = Some(TRUE)
    /\ Len(messages) >= 3
    /\ messages[3].content[1].content = "Error: connection refused"
    /\ trace.total_turns >= 1
    /\ trace.success = Some(TRUE)

(* C20: a returned trace has success true exactly when a terminal turn     *)
(* gave a final text response, that is when final_response is present.     *)
C20_SuccessIffFinalResponse ==
    CaptureReturned =>
        (trace.success = Some(TRUE) <=> trace.final_response # None)

(* Every response so far held a tool use *)
AllTurnsUsedTools ==
    \A n \in 1..Len(responses) : ToolUseBlocks(responses[n]) # <<>>

MaxTurnsError ==
    "Reached " \o "maximum turns" \o " (" \o ToString(max_turns) \o ") without completion"

(* C21: when the model emits a tool use in each of max_turns consecutive   *)
(* turns, run makes exactly max_turns model calls (no call is possible     *)
(* once turn has reached max_turns) and returns a trace with success       *)
(* false, an error that contains "maximum turns" and total_turns =         *)
(* max_turns.                                                              *)
C21_MaxTurnsExhaustion ==
    messages # <<>> =>
        /\ Len(responses) <= max_turns
        /\ (pc = "call" /\ turn >= max_turns)
              => ~ENABLED CallModel /\ ~ENABLED CallModelRaises
        /\ (pc = "returned" /\ Len(responses) = max_turns /\ AllTurnsUsedTools)
              => /\ trace.success = Some(FALSE)
                 /\ trace.error = Some(MaxTurnsError)
                 /\ trace.total_turns = max_turns

(* A run of two turns or more returned with its turns used up *)
C21_Witness ==
    /\ CaptureReturned
    /\ max_turns >= 2
    /\ Len(responses) = max_turns
    /\ AllTurnsUsedTools
    /\ trace.total_turns = max_turns
    /\ trace.success = Some(FALSE)

(* A model call of the run raised *)
ModelCallRaised == CaptureReturned /\ trace.error = Some("Connection error.")

(* C22: when a model call raises at any turn, run does not raise: it       *)
(* returns a trace with success false and the exception's text as error,   *)
(* with the thinking blocks and tool calls of the earlier turns, and no    *)
(* further model call is made.                                             *)
C22_CaptureFailure ==
    messages # <<>> =>
        /\ pc # "raised"
        /\ pc = "returned" => ~ENABLED CaptureNext
        /\ ModelCallRaised =>
              /\ trace.success = Some(FALSE)
              /\ trace.final_response = None
              /\ Len(responses) = turn
              /\ Len(trace.thinking_blocks) = Len(EmittedThinking)
              /\ \A k \in 1..Len(EmittedThinking) :
                    /\ trace.thinking_blocks[k].content = EmittedThinking[k].block.thinking
                    /\ trace.thinking_blocks[k].turn_index = EmittedThinking[k].turn_index
              /\ Len(trace.tool_calls) = Len(EmittedToolUses)
              /\ \A k \in 1..Len(EmittedToolUses) :
                    /\ trace.tool_calls[k].id = EmittedToolUses[k].block.id
                    /\ trace.tool_calls[k].result # None

(* The model call of the third turn raised, after turns with thinking and  *)
(* tool calls                                                              *)
C22_Witness ==
    /\ ModelCallRaised
    /\ turn = 2
    /\ Len(trace.thinking_blocks) >= 2
    /\ Len(trace.tool_calls) >= 3

(* The tool results of a user message answer the tool uses of a response,  *)
(* one each, in the order emitted and under their ids                      *)
AnswersToolUses(results, content) ==
    /\ Len(results) = Len(OfType(content, "tool_use"))
    /\ \A k \in 1..Len(results) :
          /\ results[k].type = "tool_result"
          /\ results[k].tool_use_id = OfType(content, "tool_use")[k].id

(* C24: the history starts with one user message holding the task; each    *)
(* tool-using turn adds the assistant message holding the content received *)
(* (reasoning blocks included, unchanged and in order) and then one user   *)
(* message holding one tool_result per tool use of the turn, in the order  *)
(* emitted and under the matching id; so before the n-th model call the    *)
(* history has 1 + 2(n - 1) messages, user and assistant in turn.          *)
C24_MessageHistory ==
    messages # <<>> =>
        /\ messages[1] = [role |-> "user", content |-> Task]
        /\ pc = "call" => Len(messages) = 1 + 2 * turn
        /\ pc = "tools" => Len(messages) = 2 + 2 * turn
        /\ \A n \in 1..Len(messages) :
              messages[n].role = IF n % 2 = 1 THEN "user" ELSE "assistant"
        /\ \A n \in 1..Len(messages) :
              n % 2 = 0 => messages[n].content = responses[n \div 2]
        /\ \A n \in 2..Len(messages) :
              n % 2 = 1 => AnswersToolUses(messages[n].content, responses[n \div 2])

(* The third model call is about to be made, after a turn whose response   *)
(* held a tool use, reasoning and a second tool use                        *)
C24_Witness ==
    /\ pc = "call"
    /\ turn = 2
    /\ turn < max_turns
    /\ Len(messages) = 5
    /\ Len(messages[2].content) = 3
    /\ messages[2].content[2].type = "thinking"
    /\ Len(messages[3].content) = 2

(* C23: a capture that failed inside the loop (its trace has success       *)
(* false; the loop reads nothing else of the failure) ends its iteration   *)
(* without the optimizer being run, and the capture of the next iteration  *)
(* runs with the same prompt.                                              *)
C23_CaptureFailureRetry ==
    \A k \in 1..NumIterations :
        (~Iterations[k].trace.success /\ Iterations[k].trace.failed_tool_calls = 0)
            => /\ Iterations[k].optimization = None
               /\ PromptAfter(k) = Iterations[k].trace.system_prompt

-----------------------------------------------------------------------------

-----------------------------------------------------------------------------
(* Properties of TraceCapture.run_streaming *)

Streamed == pc = "streamed"

(* The thinking blocks of a trace that are of a turn with a tool call *)
BeforeTools(tr) ==
    {k \in 1..Len(tr.thinking_blocks) :
        \E c \in 1..Len(tr.tool_calls) :
            tr.tool_calls[c].turn_index = tr.thinking_blocks[k].turn_index}

(* C31: after run_streaming every thinking block of the trace has          *)
(* following_action unset, whereas after run the thinking block of a turn  *)
(* that used tools has following_action = "tool_use:<name>" for a tool of  *)
(* that turn.                                                              *)
C31_StreamingNoBackLink ==
    Streamed =>
        /\ \A k \in 1..Len(trace.thinking_blocks) :
              trace.thinking_blocks[k].following_action = None
        /\ \A k \in BeforeTools(ran[1].trace) :
              \E c \in 1..Len(ran[1].trace.tool_calls) :
                  /\ ran[1].trace.tool_calls[c].turn_index
                        = ran[1].trace.thinking_blocks[k].turn_index
                  /\ ran[1].trace.thinking_blocks[k].following_action
                        = Some("tool_use:" \o ran[1].trace.tool_calls[c].name)

(* What the comparison looks at in a tool call *)
Protocol(tool_calls) ==
    [k \in 1..Len(tool_calls) |->
        [id         |-> tool_calls[k].id,
         name       |-> tool_calls[k].name,
         turn_index |-> tool_calls[k].turn_index,
         success    |-> tool_calls[k].success]]

(* C32: for the same responses of the model and the same executor,         *)
(* run_streaming returns a trace with the same tool calls (id, name, turn  *)
(* index, success), success flag, total_turns and total_tokens as run, and *)
(* sends the model the same message history at every request.              *)
C32_StreamingSameProtocol ==
    /\ (pc = "stream" /\ turn < max_turns) =>
          /\ Len(ran[1].messages) >= 1 + 2 * turn
          /\ messages = SubSeq(ran[1].messages, 1, 1 + 2 * turn)
    /\ Streamed =>
          /\ Protocol(trace.tool_calls) = Protocol(ran[1].trace.tool_calls)
          /\ trace.success = ran[1].trace.success
          /\ trace.total_turns = ran[1].trace.total_turns
          /\ trace.total_tokens = ran[1].trace.total_tokens
          /\ messages = ran[1].messages

(* Both calls returned after two turns with tools, one of whose calls      *)
(* failed, and a final answer with reasoning in every response             *)
C32_Witness ==
    /\ Streamed
    /\ trace.success = Some(TRUE)
    /\ trace.total_turns = 2
    /\ Len(trace.tool_calls) >= 3
    /\ \E c \in 1..Len(trace.tool_calls) : trace.tool_calls[c].success = Some(FALSE)
    /\ Len(trace.thinking_blocks) = 3
    /\ trace.total_tokens > 0
    /\ Len(messages) = 5
    /\ messages = ran[1].messages

-----------------------------------------------------------------------------
(* Further properties of OptimizationLoop.run *)

(* C26: in a returned LoopResult the last recorded iteration has no        *)
(* OptimizationResult and every earlier one has one (while the loop runs,  *)
(* every recorded iteration has one): the optimizer was called once for    *)
(* each iteration but the last.                                            *)
C26_OptimizationAbsentAtStop ==
    \A k \in 1..NumIterations :
        Iterations[k].optimization = None <=> (k = NumIterations /\ Returned)

(* A run returned after three iterations or more *)
C26_Witness ==
    /\ Returned
    /\ NumIterations >= 3
    /\ Iterations[NumIterations].optimization = None
    /\ Iterations[NumIterations - 1].optimization # None

(* C27: a cancellation signal raised at a suspension point (a model call   *)
(* of the capture, analyzer or optimizer step) ends the run with the       *)
(* LoopResult accumulated so far returned: however a run of                *)
(* max_iterations >= 1 ends, it returns, and the result returned counts    *)
(* the iterations recorded.                                                *)
C27_CancellationReturns ==
    (Terminated /\ config.max_iterations >= 1)
        => (Returned /\ result.total_iterations = NumIterations)

(* C28: an iteration whose composite is >= min_score_threshold is recorded *)
(* without an optimization and is the last one of a returned run, so no    *)
(* iteration before the last has such a composite; the optimizer is never  *)
(* about to be called with such a score.                                   *)
C28_ScoreCeilingStop ==
    /\ \A k \in 1..NumIterations :
          Composite(k) >= config.min_score_threshold
              => /\ k = NumIterations
                 /\ Iterations[k].optimization = None
                 /\ Returned
                 /\ result.converged
    /\ pc = "optimize" => iteration_score < config.min_score_threshold

(* A run stopped at its second or a later iteration by the score, with     *)
(* iterations to spare                                                     *)
C28_Witness ==
    /\ Returned
    /\ NumIterations >= 2
    /\ NumIterations < config.max_iterations
    /\ Composite(NumIterations) >= config.min_score_threshold
    /\ Composite(NumIterations - 1) < config.min_score_threshold

(* C29: when the composite of an iteration exceeds the best score so far,  *)
(* the best prompt recorded is the optimized prompt of that iteration if   *)
(* there is one and it differs from the initial prompt, and otherwise the  *)
(* prompt the iteration was run with.                                      *)
C29_BestTracking ==
    (NumIterations >= 2 /\ Composite(NumIterations) > BestUpTo(NumIterations - 1))
        => best_prompt =
              LET it == Iterations[NumIterations]
              IN  IF it.optimization # None
                     /\ it.optimization[1].optimized_prompt # InitialPrompt
                  THEN it.optimization[1].optimized_prompt
                  ELSE it.trace.system_prompt

(* C30: consecutive_regressions counts the regressions of immediately      *)
(* consecutive iterations: it is 0 after an iteration that is no           *)
(* regression, whether a new best or not; and the loop stops for           *)
(* regression (the count is 2 or more at the check, the score being below  *)
(* min_score_threshold) only when the two iterations before were both      *)
(* regressions.                                                            *)
C30_ConsecutiveRegressions ==
    /\ []((NumIterations >= 1 /\ ~Regressed(NumIterations))
              => consecutive_regressions = 0)
    /\ [][(/\ pc = "analyze"
           /\ pc' = "done"
           /\ iteration_score' < config.min_score_threshold
           /\ consecutive_regressions >= 2)
              => (/\ NumIterations >= 2
                  /\ Regressed(NumIterations)
                  /\ Regressed(NumIterations - 1))]_vars

(* Lines 279-295 of run(): the warning "No successful prompt optimizations *)
(* were extracted" is printed for a result (TRUE) or not                   *)
WarnsWheneverUnchanged(res, initial) == res.final_prompt = initial

WarnsNoOptimization(res, initial) ==
    /\ res.final_prompt = initial
    /\ ~\E k \in 1..Len(res.iterations) :
            /\ res.iterations[k].optimization # None
            /\ res.iterations[k].optimization[1].optimized_prompt # initial

(* Lines 251-252 and 301-302 of run(), with save_artifacts set: the        *)
(* artifacts of an iteration are written when it is recorded, the final    *)
(* ones just before the result is returned                                 *)
ArtifactsWritten ==
    {<<"iteration", Iterations[k].iteration>> : k \in 1..NumIterations}
    \cup (IF Returned THEN {<<"final_prompt.txt">>, <<"summary.json">>} ELSE {})

(* Some iteration's optimizer produced a prompt other than the initial one *)
SomePromptChanged ==
    \E k \in 1..NumIterations :
        /\ Iterations[k].optimization # None
        /\ Iterations[k].optimization[1].optimized_prompt # InitialPrompt

(* C35: when no iteration's optimizer produced a prompt different from the *)
(* initial one, the result returned has final_prompt = the initial prompt  *)
(* and the "no successful prompt optimizations" warning is printed; when   *)
(* some iteration did, the warning is not printed.                         *)
C35_NoOptimizationWarning ==
    Returned =>
        /\ ~SomePromptChanged =>
              /\ result.final_prompt = InitialPrompt
              /\ WarnsNoOptimization(result, InitialPrompt)
        /\ SomePromptChanged => ~WarnsNoOptimization(result, InitialPrompt)

(* A run of two iterations or more whose optimizer never changed the       *)
(* prompt, and the warning printed                                         *)
C35_Witness ==
    /\ Returned
    /\ NumIterations >= 2
    /\ ~SomePromptChanged
    /\ WarnsNoOptimization(result, InitialPrompt)

(* C36: for max_iterations >= 1 every LoopResult returned has converged =  *)
(* true, whatever stopped the loop, the iteration ceiling included.        *)
C36_AlwaysConverged ==
    (Returned /\ config.max_iterations >= 1) => result.converged

(* A run stopped by the iteration ceiling alone: the last composite is     *)
(* below the score threshold, below the previous analyzer score and no new *)
(* best, and fewer than two regressions were counted                       *)
C36_Witness ==
    /\ Returned
    /\ result.converged
    /\ NumIterations = config.max_iterations
    /\ NumIterations >= 2
    /\ Composite(NumIterations) < config.min_score_threshold
    /\ Composite(NumIterations) < Iterations[NumIterations - 1].analysis.overall_score
    /\ Composite(NumIterations) <= BestUpTo(NumIterations - 1)
    /\ consecutive_regressions <= 1

(* C37: with use_best_prompt set, the final_score returned is at least the *)
(* composite of every recorded iteration; so it is at least initial_score  *)
(* and improvement_percentage is not negative.                             *)
C37_FinalScoreIsMaximum ==
    (Returned /\ config.use_best_prompt) =>
        /\ \A k \in 1..NumIterations : result.final_score >= Composite(k)
        /\ result.final_score >= result.initial_score
        /\ result.improvement_percentage.num >= 0
        /\ result.improvement_percentage.den > 0

(* A run whose best composite, above the last analyzer score, is returned  *)
(* as final_score, with a lower composite recorded after it                *)
C37_Witness ==
    /\ Returned
    /\ config.use_best_prompt
    /\ NumIterations >= 3
    /\ result.final_score = Composite(2)
    /\ result.final_score > Iterations[NumIterations].analysis.overall_score
    /\ Composite(NumIterations) < result.final_score
    /\ Composite(1) < result.final_score

(* C38: the final_prompt returned (max_iterations >= 1) is the system      *)
(* prompt of the trace of some recorded iteration.                         *)
C38_FinalPromptEvaluated ==
    (Returned /\ config.max_iterations >= 1) =>
        \E k \in 1..NumIterations :
            Iterations[k].trace.system_prompt = result.final_prompt

(* C39: an exception of the analyzer's or optimizer's model call in        *)
(* iteration k is not caught: run() raises and returns nothing, iteration  *)
(* k is not recorded (iterations 1..k-1 are), finalization never runs, and *)
(* the artifacts written are those of iterations 1..k-1 only.              *)
C39_ProviderFailurePropagates ==
    (pc = "raised" /\ config.max_iterations >= 1) =>
        /\ ~ENABLED Next
        /\ NumIterations = i
        /\ \A k \in 1..NumIterations : Iterations[k].iteration = k
        /\ result.total_iterations = 0
        /\ result.final_prompt = InitialPrompt
        /\ result.final_score = 0
        /\ ArtifactsWritten = {<<"iteration", k>> : k \in 1..i}

(* The model call of the third iteration raised *)
C39_Witness ==
    /\ pc = "raised"
    /\ i = 2
    /\ NumIterations = 2
    /\ ArtifactsWritten = {<<"iteration", 1>>, <<"iteration", 2>>}

-----------------------------------------------------------------------------
-----------------------------------------------------------------------------
(* PromptOptimizer.optimize_iterative: the analyses of several runs are    *)
(* aggregated into one AnalysisResult, with which optimize() is called.    *)
(* The overall score of the aggregate, a float quotient in the source, is  *)
(* the exact fraction num/den.                                             *)

MaxAnalyses == 2

Pattern(type, description) == [type |-> type, description |-> description]

(* The analyses drawn for one run: no, one or two patterns, weaknesses and *)
(* recommendations, so that two analyses can share any of them             *)
AnalysisResults(trace_id) ==
    LET patterns == {<<>>,
                     <<Pattern("tool_misuse", "Calls search twice")>>,
                     <<Pattern("tool_misuse", "Calls search twice"),
                       Pattern("missing_validation", "Trusts the first result")>>}
        weaknesses == {<<>>, <<"Skips validation">>, <<"Skips validation", "Guesses">>}
        recommendations == {<<>>, <<"Validate tool output">>}
    IN  {[trace_id        |-> trace_id,
          patterns        |-> p,
          overall_score   |-> s,
          weaknesses      |-> w,
          recommendations |-> r] :
            p \in patterns, s \in {5000, 10000}, w \in weaknesses, r \in recommendations}

TraceId(k) == "run-" \o ToString(k)

(* The traces corresponding to the analyses *)
TracesOf(list) == [k \in 1..Len(list) |-> [session_id |-> list[k].trace_id, task |-> Task]]

(* list.extend over the analyses, in order *)
RECURSIVE Extended(_, _)
Extended(list, field) ==
    IF list = <<>> THEN <<>>
    ELSE Extended(SubSeq(list, 1, Len(list) - 1), field) \o list[Len(list)][field]

RECURSIVE Sum(_)
Sum(list) ==
    IF list = <<>> THEN 0 ELSE Sum(Tail(list)) + Head(list).overall_score

(* list(set(items)): the distinct items, each once, in an order the set    *)
(* decides                                                                 *)
ListOfSet(items) ==
    LET distinct == {items[k] : k \in 1..Len(items)}
    IN  {order \in [1..Cardinality(distinct) -> distinct] :
            \A x \in distinct : \E k \in DOMAIN order : order[k] = x}

(* Lines 216-236: the aggregated AnalysisResult, for the orders given *)
Aggregated(list, weaknesses, recommendations) ==
    [trace_id        |-> "aggregated",
     patterns        |-> Extended(list, "patterns"),
     overall_score   |-> [num |-> Sum(list),
                          den |-> IF list # <<>> THEN Len(list) ELSE 1],
     weaknesses      |-> weaknesses,
     recommendations |-> recommendations]

IterativeInit ==
    /\ pc = "optimize_iterative"
    /\ \E n \in 0..MaxAnalyses :
          /\ analyses \in [1..n -> UNION {AnalysisResults(TraceId(k)) : k \in 1..n}]
          /\ \A k \in 1..n : analyses[k].trace_id = TraceId(k)
    /\ optimize_calls = <<>>
    /\ ran = None
    /\ response_text = <<>>
    /\ got = None
    /\ current_prompt = InitialPrompt
    /\ LoopIdle
    /\ CaptureIdle

(* optimize_iterative(original_prompt, analyses, traces) returns what its  *)
(* call of optimize() returns                                              *)
OptimizeIterative ==
    /\ pc = "optimize_iterative"
    /\ \E weaknesses \in ListOfSet(Extended(analyses, "weaknesses")),
          recommendations \in ListOfSet(Extended(analyses, "recommendations")),
          reply \in {current_prompt, FreshPrompt(1)} :
        LET aggregated == Aggregated(analyses, weaknesses, recommendations)
            traces == TracesOf(analyses)
        IN  /\ analysis' = aggregated
            /\ optimize_calls' =
                  Append(optimize_calls,
                         [original_prompt |-> current_prompt,
                          analysis        |-> aggregated,
                          trace           |-> IF traces # <<>> THEN Some(traces[1])
                                              ELSE None])
            /\ optimization' = Some([original_prompt  |-> current_prompt,
                                     optimized_prompt |-> reply])
    /\ pc' = "optimized"
    /\ UNCHANGED <<config, i, current_prompt, best_score, best_prompt, best_iteration,
                   consecutive_regressions, trace, iteration_score, should_continue,
                   result, response_text, got, analyses, ran, captureVars>>

(* The model call of optimize() raises: optimize_iterative does not catch  *)
(* it                                                                      *)
OptimizeIterativeRaises ==
    /\ pc = "optimize_iterative"
    /\ pc' = "raised"
    /\ UNCHANGED <<config, i, current_prompt, best_score, best_prompt, best_iteration,
                   consecutive_regressions, trace, analysis, iteration_score,
                   should_continue, optimization, result, parseVars, captureVars>>

IterativeNext ==
    \/ OptimizeIterative
    \/ OptimizeIterativeRaises

IterativeSpec == IterativeInit /\ [][IterativeNext]_vars

(* An item occurs exactly once in a list *)
Once(list, x) == Cardinality({k \in 1..Len(list) : list[k] = x}) = 1

(* C34: optimize_iterative builds one aggregated analysis in which each    *)
(* distinct pattern, weakness and recommendation of the input analyses     *)
(* occurs exactly once, whose overall score is the mean of the inputs'     *)
(* overall scores (0 for no input), and calls optimize() exactly once,     *)
(* with that analysis.                                                     *)
C34_AggregatedOnce ==
    pc = "optimized" =>
        /\ Len(optimize_calls) = 1
        /\ optimize_calls[1].analysis = analysis
        /\ \A field \in {"patterns", "weaknesses", "recommendations"} :
              LET inputs == Extended(analyses, field)
              IN  /\ \A k \in 1..Len(inputs) : Once(analysis[field], inputs[k])
                  /\ \A k \in 1..Len(analysis[field]) :
                        \E j \in 1..Len(inputs) : inputs[j] = analysis[field][k]
        /\ analysis.overall_score.num * Len(analyses)
              = Sum(analyses) * analysis.overall_score.den
        /\ analyses = <<>> => analysis.overall_score.num = 0

====
